---- MODULE Spec2Model ----
(***************************************************************************)
(* Model of the OCR-aware correction and reconciliation engine of          *)
(* pdf-code-comparator (src/src/core.py, src/src/ocr_correction.py,        *)
(* src/src/code_filters.py).                                               *)
(*                                                                         *)
(* Conventions                                                             *)
(*   - a Python str is a sequence of one-character strings;                *)
(*   - a probability is an integer number of hundredths (0.80 is 80); the  *)
(*     scorer only adds and subtracts multiples of 0.01 and compares with  *)
(*     0.0, 0.6 and 1.0;                                                   *)
(*   - list(set(...)) in get_variants_for_position iterates in the order   *)
(*     of the interpreter's string hashes, which are randomised per        *)
(*     process: the order is the variable hashOrder, fixed when a process  *)
(*     starts and different from one process to the next.                  *)
(***************************************************************************)
EXTENDS Integers, Sequences, FiniteSets, TLC

VARIABLES
    hashOrder,   \* per process: iteration order of the set built for each character
    master,      \* master_codes_set: the vocabulary loaded at start
    sc_in,       \* scorer: the arguments of the last call, or NoCall
    sc_out,      \* scorer: what the last call returned, or NoCall
    rs_in,       \* resolver: the candidate of the last call, or NoCall
    rs_out,      \* resolver: what clean_code_advanced and extract_codes made of it
    rs_prev,     \* resolver: the call and result seen in the previous process
    restarts,    \* how many times the process was started again
    pdf1,        \* engine: the text lines of the first PDF
    pdf2,        \* engine: the text lines of the second PDF
    result_pdf1, \* engine: what extract_codes returned for the first PDF, or NoCall
    result_pdf2, \* engine: what extract_codes returned for the second PDF, or NoCall
    comparison_result,  \* engine: what compare_codes_with_correction returned, or NoCall
    previous_run,        \* engine: the inputs and the result of the previous process's run
    fn_in,       \* functions: the function called last and its arguments, or NoCall
    fn_out,      \* functions: what that call returned, or NoCall
    button_start,    \* application: the state of the start button, "normal" or "disabled"
    paths_selected,  \* application: both PDF entries of the window are filled
    threads,     \* application: the run_in_thread workers started so far, in order
    after_queue, \* application: the enable_start_button callbacks master.after holds
    clicks       \* application: the clicks on the start button so far

vars == <<hashOrder, master, sc_in, sc_out, rs_in, rs_out, rs_prev, restarts,
          pdf1, pdf2, result_pdf1, result_pdf2, comparison_result, previous_run,
          fn_in, fn_out, button_start, paths_selected, threads, after_queue, clicks>>

scorerVars == <<sc_in, sc_out>>
resolverVars == <<rs_in, rs_out, rs_prev>>
engineVars == <<pdf1, pdf2, result_pdf1, result_pdf2, comparison_result, previous_run>>
functionVars == <<fn_in, fn_out>>
guiVars == <<button_start, paths_selected, threads, after_queue, clicks>>

\* the window after AppGUI.__init__: the button can be clicked, the entries are
\* empty, no worker was started
GuiConstructed ==
    /\ button_start = "normal"
    /\ paths_selected = FALSE
    /\ threads = <<>>
    /\ after_queue = 0
    /\ clicks = 0

----------------------------------------------------------------------------
(* Bounds of the model                                                     *)

\* largest correction count handed to the scorer
MaxCorr == 5
\* longest context window handed to the scorer
MaxCtx == 3
\* how often the resolver's process is started again
MaxRestarts == 1

----------------------------------------------------------------------------
(* Generic helpers                                                         *)

NoCall == [called |-> FALSE]

SeqToSet(s) == {s[i] : i \in DOMAIN s}

Min2(a, b) == IF a <= b THEN a ELSE b

Max2(a, b) == IF a >= b THEN a ELSE b

Perms(S) ==
    {p \in [1..Cardinality(S) -> S] : \A x \in S : \E i \in DOMAIN p : p[i] = x}

SeqsUpTo(S, n) == UNION {[1..k -> S] : k \in 0..n}

RECURSIVE SumSeq(_)
SumSeq(s) == IF s = <<>> THEN 0 ELSE Head(s) + SumSeq(Tail(s))

RECURSIVE Concat(_)
Concat(ss) == IF ss = <<>> THEN <<>> ELSE Head(ss) \o Concat(Tail(ss))

\* s[a..b) with Python's 0-based slice bounds, both already clipped to 0..Len(s)
Slice(s, a, b) == IF b <= a THEN <<>> ELSE SubSeq(s, a + 1, b)

IsSubstring(t, s) ==
    \E i \in 0..(Len(s) - Len(t)) : \A j \in 1..Len(t) : s[i + j] = t[j]

----------------------------------------------------------------------------
(* Characters and strings                                                  *)

\* what a lookup that finds nothing returns (no string is equal to it)
NoMatch == <<"<none>">>

\* a candidate that is not a str
NonString == <<"<not a str>">>

\* master_codes_set=None, the default of clean_code_advanced and clean_code
NoVocabulary == {<<"<None>">>}

Lowers == <<"a","b","c","d","e","f","g","h","i","j","k","l","m",
            "n","o","p","q","r","s","t","u","v","w","x","y","z">>
Uppers == <<"A","B","C","D","E","F","G","H","I","J","K","L","M",
            "N","O","P","Q","R","S","T","U","V","W","X","Y","Z">>

UpperChar(ch) ==
    IF \E i \in DOMAIN Lowers : Lowers[i] = ch
    THEN Uppers[CHOOSE i \in DOMAIN Lowers : Lowers[i] = ch]
    ELSE ch

\* str.upper()
upper(s) == [i \in DOMAIN s |-> UpperChar(s[i])]

Whitespace == {" "}

RECURSIVE lstrip(_)
lstrip(s) == IF s # <<>> /\ Head(s) \in Whitespace THEN lstrip(Tail(s)) ELSE s

RECURSIVE rstrip(_)
rstrip(s) ==
    IF s # <<>> /\ s[Len(s)] \in Whitespace THEN rstrip(SubSeq(s, 1, Len(s) - 1)) ELSE s

\* str.strip()
strip(s) == lstrip(rstrip(s))

TrailingPunctuation == {".", ",", ":", ";", ")"}

\* re.sub(r'[.,:;)]+$', '', s)
RECURSIVE strip_trailing_punctuation(_)
strip_trailing_punctuation(s) ==
    IF s # <<>> /\ s[Len(s)] \in TrailingPunctuation
    THEN strip_trailing_punctuation(SubSeq(s, 1, Len(s) - 1))
    ELSE s

\* the Grundbereinigung of clean_code_advanced: strip, drop the trailing run, upper
basic_clean(code) == upper(strip_trailing_punctuation(strip(code)))

----------------------------------------------------------------------------
(* generate_all_ocr_variants                                               *)

ocr_substitutions(ch) ==
    CASE ch = "0" -> <<"O">>
      [] ch = "O" -> <<"0">>
      [] ch = "8" -> <<"B">>
      [] ch = "B" -> <<"8">>
      [] ch = "I" -> <<"1", "L">>
      [] ch = "1" -> <<"I", "L">>
      [] ch = "L" -> <<"I", "1">>
      [] ch = "5" -> <<"S">>
      [] ch = "S" -> <<"5">>
      [] ch = "6" -> <<"G">>
      [] ch = "G" -> <<"6">>
      [] ch = "2" -> <<"Z">>
      [] ch = "Z" -> <<"2">>
      [] OTHER -> <<>>

\* the characters get_variants_for_position builds a set of several characters for
ConfusableChars == {"0", "O", "8", "B", "I", "1", "L", "5", "S", "6", "G", "2", "Z"}

\* variants = [char] + ocr_substitutions[char], as the set list(set(...)) reads
variants_at(ch) == SeqToSet(<<ch>> \o ocr_substitutions(ch))

\* the order of a set built for a character that occurs in no input (it is
\* never read)
DefaultOrder(ch) == <<ch>> \o ocr_substitutions(ch)

\* every iteration order the sets built for the characters of chars can have:
\* one permutation per character, since the order of a small set depends on the
\* hashes of its elements and, when they collide, on which was inserted first
HashOrdersFor(chars) ==
    LET used == ConfusableChars \cap chars
        picks == {f \in [used -> UNION {Perms(variants_at(ch)) : ch \in used}] :
                     \A ch \in used : f[ch] \in Perms(variants_at(ch))}
    IN  {[ch \in ConfusableChars |-> IF ch \in used THEN f[ch] ELSE DefaultOrder(ch)] :
            f \in picks}

\* list(set(variants)): the characters in the process's set order
get_variants_for_position(ch, ord) ==
    IF Cardinality(variants_at(ch)) = 1 THEN <<ch>> ELSE ord[ch]

\* itertools.product(*position_variants): the last position varies fastest
RECURSIVE product(_)
product(position_variants) ==
    IF position_variants = <<>> THEN << <<>> >>
    ELSE LET first == Head(position_variants)
             rest == product(Tail(position_variants))
         IN  Concat([i \in 1..Len(first) |->
                        [j \in 1..Len(rest) |-> <<first[i]>> \o rest[j]]])

count_changes(variant, code) ==
    Cardinality({i \in DOMAIN variant : i <= Len(code) /\ variant[i] # code[i]})

\* a list with only the elements whose count_changes is k, k+1, ..., in that order
RECURSIVE buckets_from(_, _, _)
buckets_from(all_variants, code, k) ==
    IF k > Len(code) THEN <<>>
    ELSE SelectSeq(all_variants, LAMBDA v : count_changes(v, code) = k)
         \o buckets_from(all_variants, code, k + 1)

\* a variant order that skips the sort
unsorted_variants(all_variants, code) == all_variants

\* a sort by count_changes that reverses the variants of equal count
sort_reversing_ties(all_variants, code) ==
    buckets_from([i \in 1..Len(all_variants) |-> all_variants[Len(all_variants) + 1 - i]],
                 code, 0)

\* all_variants.sort(key=count_changes): a stable sort
sort_by_count_changes(all_variants, code) == buckets_from(all_variants, code, 0)

\* a generator that does not take the code out of the product
generate_keeping_original(code, ord) ==
    LET position_variants ==
            [i \in 1..Len(code) |-> get_variants_for_position(code[i], ord)]
    IN  <<code>> \o sort_by_count_changes(product(position_variants), code)

\* a generator whose loop over the characters starts at the second one
generate_skipping_first_position(code, ord) ==
    LET position_variants ==
            [i \in 1..(Len(code) - 1) |-> get_variants_for_position(code[i + 1], ord)]
        all_variants == SelectSeq(product(position_variants), LAMBDA v : v # code)
    IN  <<code>> \o sort_by_count_changes(all_variants, code)

generate_all_ocr_variants(code, ord) ==
    LET position_variants ==
            [i \in 1..Len(code) |-> get_variants_for_position(code[i], ord)]
        all_variants == SelectSeq(product(position_variants), LAMBDA v : v # code)
    IN  <<code>> \o sort_by_count_changes(all_variants, code)

----------------------------------------------------------------------------
(* clean_code_advanced, count_corrections_needed, analyze_corrections      *)

\* the first element of variants that is in master_codes_set, or NoMatch
RECURSIVE first_in_master(_, _)
first_in_master(variants, master_codes_set) ==
    IF variants = <<>> THEN NoMatch
    ELSE IF Head(variants) \in master_codes_set THEN Head(variants)
    ELSE first_in_master(Tail(variants), master_codes_set)

\* a Phase 1 that never tries the cleaned form itself
phase1_skipping_original(cleaned, master_codes_set, ord) ==
    first_in_master(Tail(generate_all_ocr_variants(cleaned, ord)), master_codes_set)

\* Phase 1: the first variant, in variant order, that is a master code
phase1_match(cleaned, master_codes_set, ord) ==
    first_in_master(generate_all_ocr_variants(cleaned, ord), master_codes_set)

\* a guard of Phase 2 that does not look at the length
can_shorten_without_length_check(cleaned) ==
    /\ Len(cleaned) > 1
    /\ cleaned[2] \in {"0", "O"}

\* the guard of Phase 2: a 0 or O in second place of a code longer than 3
can_shorten(cleaned) ==
    /\ Len(cleaned) > 3
    /\ Len(cleaned) > 1
    /\ cleaned[2] \in {"0", "O"}
    /\ Len(cleaned) - 1 >= 3

shorten(cleaned) == <<cleaned[1]>> \o SubSeq(cleaned, 3, Len(cleaned))

\* Phase 2: the first variant of the shortened form that is a master code
phase2_match(cleaned, master_codes_set, ord) ==
    IF can_shorten(cleaned)
    THEN first_in_master(generate_all_ocr_variants(shorten(cleaned), ord),
                         master_codes_set)
    ELSE NoMatch

clean_code_advanced(code, master_codes_set, ord) ==
    IF code = NonString THEN <<>>
    ELSE IF code = <<>> THEN upper(strip(code))
    ELSE LET cleaned == basic_clean(code)
             p1 == phase1_match(cleaned, master_codes_set, ord)
             p2 == phase2_match(cleaned, master_codes_set, ord)
         IN  IF master_codes_set = NoVocabulary \/ master_codes_set = {} THEN cleaned
             ELSE IF p1 # NoMatch THEN p1
             ELSE IF p2 # NoMatch THEN p2
             ELSE cleaned

\* a normalizer that also removes a 0 or O in second place
clean_code_shortening(code, master_codes_set, ord) ==
    IF code = NonString THEN <<>>
    ELSE IF can_shorten(basic_clean(code)) THEN shorten(basic_clean(code))
    ELSE basic_clean(code)

clean_code(code, master_codes_set, ord) ==
    clean_code_advanced(code, master_codes_set, ord)

\* a count of the differing positions only, without the length difference
count_substitutions_only(original, corrected) ==
    IF original = corrected THEN 0
    ELSE LET o == strip(upper(original))
             c == strip(upper(corrected))
         IN  Cardinality({i \in 1..Min2(Len(o), Len(c)) : o[i] # c[i]})

count_corrections_needed(original, corrected) ==
    IF original = corrected THEN 0
    ELSE LET o == strip(upper(original))
             c == strip(upper(corrected))
             length_diff == IF Len(o) >= Len(c) THEN Len(o) - Len(c) ELSE Len(c) - Len(o)
             min_length == Min2(Len(o), Len(c))
         IN  length_diff + Cardinality({i \in 1..min_length : o[i] # c[i]})

\* the substitutions analyze_corrections has a name for
NamedSubstitutions ==
    {<<"8", "B">>, <<"B", "8">>, <<"I", "1">>, <<"1", "I">>, <<"0", "O">>, <<"O", "0">>,
     <<"5", "S">>, <<"S", "5">>, <<"6", "G">>, <<"G", "6">>, <<"2", "Z">>, <<"Z", "2">>}

\* the list of details analyze_corrections joins into its text; NoMatch is None
analyze_corrections(original, corrected) ==
    IF original = corrected THEN NoMatch
    ELSE IF /\ Len(original) > Len(corrected)
            /\ Len(original) > 1
            /\ original[2] \in {"0", "O"}
            /\ shorten(original) = corrected
         THEN << <<"0 an 2. Stelle entfernt">> >>
    ELSE LET n == Min2(Len(original), Len(corrected))
             subs == SelectSeq([i \in 1..n |-> <<original[i], corrected[i]>>],
                               LAMBDA pr : pr \in NamedSubstitutions)
             spaces == IF " " \in SeqToSet(original) /\ " " \notin SeqToSet(corrected)
                       THEN << <<"Leerzeichen entfernt">> >> ELSE <<>>
         IN  IF subs \o spaces # <<>> THEN subs \o spaces
             ELSE << <<"OCR-Korrektur">> >>

\* a validation loop that stops after Phase 1
resolve_first_phase_only(code, master_codes_set, ord) ==
    [validated |-> phase1_match(basic_clean(code), master_codes_set, ord),
     info |-> <<>>]

\* the body of the validation loop of extract_codes for one raw code: the code
\* it adds to the validated set (NoMatch: none) and the correction records it
\* appends to correction_info (one or none)
extract_codes_resolve(code, master_codes_set, ord) ==
    LET original_code == strip(upper(code))
        basic_cleaned == upper(strip_trailing_punctuation(strip(original_code)))
        found1 == first_in_master(generate_all_ocr_variants(basic_cleaned, ord),
                                  master_codes_set)
        applied1 == IF found1 # NoMatch /\ found1 # basic_cleaned
                    THEN <<analyze_corrections(basic_cleaned, found1)>>
                    ELSE <<>>
        try2 == /\ found1 = NoMatch
                /\ Len(basic_cleaned) > 3
                /\ Len(basic_cleaned) > 1
                /\ basic_cleaned[2] \in {"0", "O"}
                /\ Len(basic_cleaned) - 1 >= 3
        shortened == <<basic_cleaned[1]>> \o SubSeq(basic_cleaned, 3, Len(basic_cleaned))
        found2 == IF try2
                  THEN first_in_master(generate_all_ocr_variants(shortened, ord),
                                       master_codes_set)
                  ELSE NoMatch
        applied2 == IF try2
                    THEN << << <<"0 an 2. Stelle entfernt">> >> >>
                         \o (IF found2 # NoMatch /\ found2 # shortened
                             THEN <<analyze_corrections(shortened, found2)>>
                             ELSE <<>>)
                    ELSE <<>>
        found_match == IF found1 # NoMatch THEN found1 ELSE found2
        corrections_applied == applied1 \o applied2
    IN  IF basic_cleaned \in master_codes_set
        THEN [validated |-> basic_cleaned, info |-> <<>>]
        ELSE [validated |-> found_match,
              info |-> IF found_match # NoMatch /\ corrections_applied # <<>>
                       THEN <<[original |-> original_code,
                               corrected |-> found_match,
                               corrections_applied |-> corrections_applied,
                               corrections_count |-> Len(corrections_applied)]>>
                       ELSE <<>>]

----------------------------------------------------------------------------
(* get_validated_context_codes and calculate_precise_probability           *)

\* the last position (from 1) holding target_code, 0 if none
last_index_of(all_validated_codes, target_code) ==
    IF target_code \in SeqToSet(all_validated_codes)
    THEN CHOOSE i \in DOMAIN all_validated_codes :
            /\ all_validated_codes[i] = target_code
            /\ \A j \in (i + 1)..Len(all_validated_codes) : all_validated_codes[j] # target_code
    ELSE 0

\* list.index(target_code): the first position (from 1) holding it, 0 if none
index_of(all_validated_codes, target_code) ==
    IF target_code \in SeqToSet(all_validated_codes)
    THEN CHOOSE i \in DOMAIN all_validated_codes :
            /\ all_validated_codes[i] = target_code
            /\ \A j \in 1..(i - 1) : all_validated_codes[j] # target_code
    ELSE 0

get_validated_context_codes(all_validated_codes, target_code, context_size) ==
    LET index == index_of(all_validated_codes, target_code) - 1
        n == Len(all_validated_codes)
    IN  IF index < 0 THEN [before |-> <<>>, after |-> <<>>]
        ELSE [before |-> Slice(all_validated_codes, Max2(0, index - context_size), index),
              after  |-> Slice(all_validated_codes, Min2(n, index + 1),
                               Min2(n, index + 1 + context_size))]

\* probabilities and weights in hundredths
BaseBoth == 80
BaseSingle == 40
CorrectionPenalty == 10
WeightsBeforeDirect == <<10, 5, 2>>
WeightsAfterDirect == <<8, 5, 2>>
WeightsOneEach == <<10, 7, 3>>
WeightsOther == <<8, 5, 2>>
ContextDepth == 3

\* 'before' weights without the branch for zero corrections
before_weights_without_direct_case(corrections_pdf1, corrections_pdf2) ==
    IF corrections_pdf1 + corrections_pdf2 = 2
       /\ corrections_pdf1 = 1 /\ corrections_pdf2 = 1 THEN WeightsOneEach
    ELSE WeightsOther

before_weights(corrections_pdf1, corrections_pdf2) ==
    IF corrections_pdf1 + corrections_pdf2 = 0 THEN WeightsBeforeDirect
    ELSE IF corrections_pdf1 + corrections_pdf2 = 2
            /\ corrections_pdf1 = 1 /\ corrections_pdf2 = 1 THEN WeightsOneEach
    ELSE WeightsOther

after_weights(corrections_pdf1, corrections_pdf2) ==
    IF corrections_pdf1 + corrections_pdf2 = 0 THEN WeightsAfterDirect
    ELSE IF corrections_pdf1 + corrections_pdf2 = 2
            /\ corrections_pdf1 = 1 /\ corrections_pdf2 = 1 THEN WeightsOneEach
    ELSE WeightsOther

\* a 'before' loop that compares from the front of the windows
before_hits_from_front(before_pdf1, before_pdf2) ==
    {i \in 0..(Min2(Min2(Len(before_pdf1), Len(before_pdf2)), ContextDepth) - 1) :
        before_pdf1[i + 1] = before_pdf2[i + 1]}

\* the offsets (from 0, nearest first) of the 'before' loop at which the codes agree
before_hits(before_pdf1, before_pdf2) ==
    {i \in 0..(Min2(Min2(Len(before_pdf1), Len(before_pdf2)), ContextDepth) - 1) :
        before_pdf1[Len(before_pdf1) - i] = before_pdf2[Len(before_pdf2) - i]}

\* the offsets (from 0, nearest first) of the 'after' loop at which the codes agree
after_hits(after_pdf1, after_pdf2) ==
    {i \in 0..(Min2(Min2(Len(after_pdf1), Len(after_pdf2)), ContextDepth) - 1) :
        after_pdf1[i + 1] = after_pdf2[i + 1]}

weight_sum(weights, hits) ==
    SumSeq([k \in 1..Len(weights) |-> IF (k - 1) \in hits THEN weights[k] ELSE 0])

\* a final step that forgets the clamp
unclamped(probability) == probability

\* max(0.0, min(1.0, probability))
clamp(probability) == Max2(0, Min2(100, probability))

\* a penalty that counts document 1's corrections only
base_probability_pdf1_only(corrections_pdf1, corrections_pdf2, is_in_both) ==
    Max2(0, (IF is_in_both THEN BaseBoth ELSE BaseSingle)
            - corrections_pdf1 * CorrectionPenalty)

\* a base that no correction lowers
base_without_penalty(corrections_pdf1, corrections_pdf2, is_in_both) ==
    IF is_in_both THEN BaseBoth ELSE BaseSingle

\* 0.80 or 0.40, less 0.10 per correction, not below 0
base_probability(corrections_pdf1, corrections_pdf2, is_in_both) ==
    Max2(0, (IF is_in_both THEN BaseBoth ELSE BaseSingle)
            - (corrections_pdf1 + corrections_pdf2) * CorrectionPenalty)

calculate_precise_probability(corrections_pdf1, corrections_pdf2, context_pdf1, context_pdf2, is_in_both) ==
    LET base == base_probability(corrections_pdf1, corrections_pdf2, is_in_both)
        bhits == before_hits(context_pdf1.before, context_pdf2.before)
        ahits == after_hits(context_pdf1.after, context_pdf2.after)
        context_bonus ==
            weight_sum(before_weights(corrections_pdf1, corrections_pdf2), bhits)
            + weight_sum(after_weights(corrections_pdf1, corrections_pdf2), ahits)
    IN  IF is_in_both
        THEN [probability |-> clamp(base + context_bonus),
              before_matches |-> Cardinality(bhits),
              after_matches |-> Cardinality(ahits),
              before_total |-> Min2(Min2(Len(context_pdf1.before),
                                         Len(context_pdf2.before)), ContextDepth),
              after_total |-> Min2(Min2(Len(context_pdf1.after),
                                        Len(context_pdf2.after)), ContextDepth)]
        ELSE [probability |-> clamp(base),
              before_matches |-> 0, after_matches |-> 0,
              before_total |-> 0, after_total |-> 0]

----------------------------------------------------------------------------
(* Scorer: calculate_precise_probability called on bounded arguments       *)

\* two codes are enough to make any pattern of agreement
ScorerCodes == {<<"A", "1", "X">>, <<"B", "2", "Y">>}

\* document 1's windows: every sequence of the two codes
ScorerWindows1 == SeqsUpTo(ScorerCodes, MaxCtx)

\* document 2's windows: every length, the same code throughout
ScorerWindows2 == {[i \in 1..k |-> <<"A", "1", "X">>] : k \in 0..MaxCtx}

InitScorer ==
    /\ GuiConstructed
    /\ hashOrder \in HashOrdersFor({})
    /\ master = {}
    /\ sc_in = NoCall
    /\ sc_out = NoCall
    /\ rs_in = NoCall
    /\ rs_out = NoCall
    /\ rs_prev = NoCall
    /\ restarts = 0
    /\ pdf1 = <<>>
    /\ pdf2 = <<>>
    /\ result_pdf1 = NoCall
    /\ result_pdf2 = NoCall
    /\ comparison_result = NoCall
    /\ previous_run = NoCall
    /\ fn_in = NoCall
    /\ fn_out = NoCall

ScoreCall ==
    /\ sc_in = NoCall
    /\ \E c1 \in 0..MaxCorr, c2 \in 0..MaxCorr, in_both \in BOOLEAN,
          b1 \in ScorerWindows1, a1 \in ScorerWindows1,
          b2 \in ScorerWindows2, a2 \in ScorerWindows2 :
          /\ sc_in' = [called |-> TRUE,
                       corrections_pdf1 |-> c1, corrections_pdf2 |-> c2,
                       context_pdf1 |-> [before |-> b1, after |-> a1],
                       context_pdf2 |-> [before |-> b2, after |-> a2],
                       is_in_both |-> in_both]
          /\ sc_out' = calculate_precise_probability(
                           c1, c2, [before |-> b1, after |-> a1],
                           [before |-> b2, after |-> a2], in_both)
    /\ UNCHANGED <<guiVars, hashOrder, master, resolverVars, restarts, engineVars, functionVars>>

NextScorer == ScoreCall

SpecScorer == InitScorer /\ [][NextScorer]_vars

(* ---- claims about the scorer ---- *)

\* the i-th nearest code of a window (i from 1): a 'before' window is read from
\* its end, an 'after' window from its start
NearestCode(window, side, i) ==
    IF side = "before" THEN window[Len(window) + 1 - i] ELSE window[i]

\* the number of offsets the two windows of one side can be compared at
ComparedOffsets(side) ==
    Min2(Min2(Len(sc_in.context_pdf1[side]), Len(sc_in.context_pdf2[side])), 3)

AgreeAt(side, i) ==
    NearestCode(sc_in.context_pdf1[side], side, i)
        = NearestCode(sc_in.context_pdf2[side], side, i)

NoContextAgrees ==
    \A side \in {"before", "after"} : \A i \in 1..ComparedOffsets(side) : ~AgreeAt(side, i)

SumCorrections == sc_in.corrections_pdf1 + sc_in.corrections_pdf2

\* the base value as the specification states it
StatedBase ==
    IF sc_in.is_in_both
    THEN IF SumCorrections = 0 THEN 80 ELSE Max2(0, 80 - 10 * SumCorrections)
    ELSE IF sc_in.corrections_pdf2 = 0 THEN Max2(0, 40 - 10 * sc_in.corrections_pdf1)
    ELSE Max2(0, 40 - 10 * sc_in.corrections_pdf2)

\* the weight table as the specification states it
StatedWeights(side) ==
    IF SumCorrections = 0
    THEN IF side = "before" THEN <<10, 5, 2>> ELSE <<8, 5, 2>>
    ELSE IF sc_in.corrections_pdf1 = 1 /\ sc_in.corrections_pdf2 = 1 THEN <<10, 7, 3>>
    ELSE <<8, 5, 2>>

StatedSideBonus(side) ==
    SumSeq([i \in 1..ComparedOffsets(side) |->
               IF AgreeAt(side, i) THEN StatedWeights(side)[i] ELSE 0])

StatedBonus ==
    IF sc_in.is_in_both THEN StatedSideBonus("before") + StatedSideBonus("after") ELSE 0

\* C5: for all correction counts in 0..MaxCorr, either in-both flag and all
\* context windows, the probability the scorer returns lies in [0, 1].
C5_ProbabilityInUnitInterval ==
    sc_in.called => (sc_out.probability >= 0 /\ sc_out.probability <= 100)

\* C5 witness: a call whose unclamped sum exceeds 1 (no corrections, all six
\* context positions agree) and one whose penalty exceeds the base.
C5_Witness ==
    /\ sc_in.called
    /\ sc_in.is_in_both
    /\ SumCorrections = 0
    /\ sc_out.before_matches = 3
    /\ sc_out.after_matches = 3
    /\ sc_out.probability = 100

\* C6: when no context position agrees, the score is the base value: 0.80 in
\* both documents without corrections, max(0, 0.80 - 0.10*(c1+c2)) in both with
\* corrections, max(0, 0.40 - 0.10*c) in one document only, c being the
\* corrections of that document (the other document's count is 0).
C6_ScoreIsBaseWithoutAgreement ==
    (/\ sc_in.called
     /\ NoContextAgrees
     /\ (~sc_in.is_in_both => (sc_in.corrections_pdf1 = 0 \/ sc_in.corrections_pdf2 = 0)))
    => sc_out.probability = StatedBase

\* C6 witness: a corrected code of both documents whose windows can be compared
\* and agree nowhere.
C6_Witness ==
    /\ sc_in.called
    /\ sc_in.is_in_both
    /\ sc_in.corrections_pdf1 = 1
    /\ sc_in.corrections_pdf2 = 2
    /\ ComparedOffsets("before") = 3
    /\ ComparedOffsets("after") = 2
    /\ NoContextAgrees
    /\ sc_out.probability = 50

\* C7: the context bonus is zero unless the code is in both documents; otherwise
\* it is the sum of the weights at the offsets i < min(|w1|, |w2|, 3), nearest
\* first, at which the documents agree, with the table chosen by the counts.
\* The returned probability is the clamped sum of the base and that bonus.
C7_BonusIsSumOfAgreeingWeights ==
    sc_in.called =>
        sc_out.probability =
            Max2(0, Min2(100, base_probability(sc_in.corrections_pdf1,
                                               sc_in.corrections_pdf2,
                                               sc_in.is_in_both) + StatedBonus))

\* C7 witness: one correction in each document, windows of different lengths,
\* agreement at the nearest and third 'before' offsets only.
C7_Witness ==
    /\ sc_in.called
    /\ sc_in.is_in_both
    /\ sc_in.corrections_pdf1 = 1
    /\ sc_in.corrections_pdf2 = 1
    /\ Len(sc_in.context_pdf1.before) = 3
    /\ ComparedOffsets("before") = 3
    /\ AgreeAt("before", 1) /\ ~AgreeAt("before", 2) /\ AgreeAt("before", 3)
    /\ ComparedOffsets("after") = 1
    /\ ~AgreeAt("after", 1)
    /\ sc_out.probability = 73

----------------------------------------------------------------------------
(* Resolver: clean_code_advanced and the validation loop of extract_codes  *)
(* called on one candidate, in one process and again in the next           *)

P0B == <<"P", "0", "B">>
PO8 == <<"P", "O", "8">>
POB == <<"P", "O", "B">>
P08 == <<"P", "0", "8">>
PAB == <<"P", "A", "B">>
PA8 == <<"P", "A", "8">>
P0AB == <<"P", "0", "A", "B">>
POAB == <<"P", "O", "A", "B">>
P0A8 == <<"P", "0", "A", "8">>
PXAB == <<"P", "X", "A", "B">>
PB == <<"P", "B">>

\* the codes a master list of the resolver runs is drawn from
ResolverMasterCodes == {P0B, PO8, POB, PAB, POAB}

\* the master lists of the resolver runs: every subset of these codes, and two
\* lists with a code of two characters
ResolverMasters == (SUBSET ResolverMasterCodes) \cup {{PB}, {PB, P0B}}

\* the candidates of the resolver runs: already canonical, one and two
\* substitutions away, lower case with trailing punctuation, with a 0 in second
\* place (length 3 and 4), with another character in second place (length 4),
\* empty, and not a str
ResolverCandidates ==
    {P0B, P08, POB, PA8, P0AB, P0A8, PXAB, <<"p", "0", "8", ".">>,
     <<" ", "p", "0", "b", ";", ")">>, <<>>, NonString}

ResolverChars == {"P", "0", "O", "8", "B", "A", "X"}

\* re.findall(r'\b[A-Z0-9]{3,7}\b', line.upper()) only yields such strings
CodeChars == SeqToSet(Uppers) \cup {"0", "1", "2", "3", "4", "5", "6", "7", "8", "9"}

is_raw_code(code) ==
    /\ code # NonString
    /\ Len(code) >= 3 /\ Len(code) <= 7
    /\ \A i \in DOMAIN code : code[i] \in CodeChars

InitResolver ==
    /\ GuiConstructed
    /\ hashOrder \in HashOrdersFor(ResolverChars)
    /\ master \in ResolverMasters
    /\ sc_in = NoCall
    /\ sc_out = NoCall
    /\ rs_in = NoCall
    /\ rs_out = NoCall
    /\ rs_prev = NoCall
    /\ restarts = 0
    /\ pdf1 = <<>>
    /\ pdf2 = <<>>
    /\ result_pdf1 = NoCall
    /\ result_pdf2 = NoCall
    /\ comparison_result = NoCall
    /\ previous_run = NoCall
    /\ fn_in = NoCall
    /\ fn_out = NoCall

\* one call of clean_code_advanced and, for a candidate the extraction regex can
\* produce, one pass of the validation loop of extract_codes
ResolveCall ==
    /\ ~rs_in.called
    /\ \E code \in ResolverCandidates :
          /\ rs_in' = [called |-> TRUE, code |-> code]
          /\ rs_out' = [clean |-> clean_code_advanced(code, master, hashOrder),
                        inline |-> IF is_raw_code(code)
                                   THEN extract_codes_resolve(code, master, hashOrder)
                                   ELSE NoMatch]
    /\ UNCHANGED <<guiVars, hashOrder, master, scorerVars, rs_prev, restarts, engineVars, functionVars>>

\* the program ends and is started again: the interpreter draws new string
\* hashes, the master list is loaded again from the same file
ProcessRestart ==
    /\ rs_in.called
    /\ restarts < MaxRestarts
    /\ restarts' = restarts + 1
    /\ rs_prev' = [called |-> TRUE, code |-> rs_in.code, out |-> rs_out]
    /\ rs_in' = NoCall
    /\ rs_out' = NoCall
    /\ hashOrder' \in HashOrdersFor(ResolverChars)
    /\ UNCHANGED <<guiVars, master, scorerVars, engineVars, functionVars>>

NextResolver == ResolveCall \/ ProcessRestart

SpecResolver == InitResolver /\ [][NextResolver]_vars

(* ---- claims about the resolver ---- *)

\* the normalized form of the candidate of the last call
Normalized == basic_clean(rs_in.code)

\* v is a same-length confusable variant of c: at every position the character
\* of c or one of its confusables
IsVariantOf(v, c) ==
    /\ Len(v) = Len(c)
    /\ \A i \in DOMAIN c : v[i] = c[i] \/ v[i] \in SeqToSet(ocr_substitutions(c[i]))

\* the positional edit count of v against c (same length)
EditCount(v, c) == Cardinality({i \in DOMAIN c : v[i] # c[i]})

\* the master codes that are variants of the normalized candidate
VariantMembers == {m \in master : IsVariantOf(m, Normalized)}

StringCall == rs_in.called /\ rs_in.code # NonString /\ rs_in.code # <<>>

RawCodeCall == rs_in.called /\ is_raw_code(rs_in.code)

\* C2: for a fixed candidate and a fixed master list the resolver always returns
\* the same code, also in another run of the program: the result of a call
\* equals the result the same call had in the previous process.
C2_ResolverDeterministic ==
    (rs_in.called /\ rs_prev.called /\ rs_prev.code = rs_in.code)
    => (/\ rs_out.clean = rs_prev.out.clean
        /\ rs_out.inline = rs_prev.out.inline)

\* C3: when the normalized candidate is no master code but some same-length
\* variant is, both resolvers return a master code that is a variant and whose
\* edit count against the normalized form is minimal among the variant members.
C3_FirstHitHasMinimalEditCount ==
    (StringCall /\ Normalized \notin master /\ VariantMembers # {})
    => (/\ rs_out.clean \in VariantMembers
        /\ \A m \in VariantMembers :
              EditCount(rs_out.clean, Normalized) <= EditCount(m, Normalized)
        /\ RawCodeCall =>
              /\ rs_out.inline.validated \in VariantMembers
              /\ \A m \in VariantMembers :
                    EditCount(rs_out.inline.validated, Normalized)
                        <= EditCount(m, Normalized))

\* C3 witness: P08 against a master list holding P0B (one edit) and POB (two
\* edits) but not P08: both resolvers return P0B.
C3_Witness ==
    /\ rs_in.called
    /\ rs_in.code = P08
    /\ {P0B, POB} \subseteq master
    /\ PO8 \notin master
    /\ rs_out.clean = P0B
    /\ rs_out.inline.validated = P0B

\* C4: when the normalized candidate is itself a master code, both resolvers
\* return exactly that form, with zero operations and no correction record.
C4_DirectMatchIsUntouched ==
    (StringCall /\ Normalized \in master)
    => (/\ rs_out.clean = Normalized
        /\ count_corrections_needed(Normalized, rs_out.clean) = 0
        /\ RawCodeCall =>
              /\ rs_out.inline.validated = Normalized
              /\ rs_out.inline.info = <<>>)

\* C4 witness: POB is a master code and so are variants of it (P0B, PO8); the
\* candidate POB comes back unchanged and without a correction record.
C4_Witness ==
    /\ rs_in.called
    /\ rs_in.code = POB
    /\ {POB, P0B, PO8} \subseteq master
    /\ rs_out.clean = POB
    /\ rs_out.inline.validated = POB
    /\ rs_out.inline.info = <<>>

\* the claim's conditions for shortening: no same-length variant is a master
\* code, the normalized form is longer than 3 and has '0' or 'O' in second place
ShorteningApplies ==
    /\ VariantMembers = {}
    /\ Len(Normalized) > 3
    /\ Normalized[2] \in {"0", "O"}

\* the normalized form without its second character
ShortenedForm == <<Normalized[1]>> \o SubSeq(Normalized, 3, Len(Normalized))

\* the master codes that are variants of the shortened form
ShortenedMembers == {m \in master : IsVariantOf(m, ShortenedForm)}

\* no pass of the resolver can find a master code
StaysUnmatched ==
    /\ VariantMembers = {}
    /\ ~(ShorteningApplies /\ ShortenedMembers # {})

\* C15: the resolver returns a code one character shorter than the normalized
\* form only when no same-length variant is a master code, the second character
\* is '0' or 'O' and the form is longer than 3; a form of length 3 is never
\* shortened; and where no pass can match, the candidate stays unmatched.
C15_ShorteningOnlyUnderItsGuard ==
    StringCall =>
        /\ Len(rs_out.clean) = Len(Normalized) - 1 => ShorteningApplies
        /\ Len(Normalized) = 3 => Len(rs_out.clean) = 3
        /\ StaysUnmatched => rs_out.clean = Normalized /\ rs_out.clean \notin master
        /\ RawCodeCall =>
              /\ (/\ rs_out.inline.validated # NoMatch
                  /\ Len(rs_out.inline.validated) = Len(Normalized) - 1)
                 => ShorteningApplies
              /\ (Len(Normalized) = 3 /\ rs_out.inline.validated # NoMatch)
                 => Len(rs_out.inline.validated) = 3
              /\ StaysUnmatched => rs_out.inline.validated = NoMatch

\* C15 witness: P0AB has no same-length variant in the master list, which holds
\* PAB: both resolvers drop the 0 and return PAB.
C15_Witness ==
    /\ rs_in.called
    /\ rs_in.code = P0AB
    /\ VariantMembers = {}
    /\ PAB \in master
    /\ rs_out.clean = PAB
    /\ rs_out.inline.validated = PAB

\* the variants the resolver iterates in Phase 1 and, when its guard holds, in
\* Phase 2, of the normalized candidate of the last call
Phase1Variants == generate_all_ocr_variants(Normalized, hashOrder)

Phase2Variants ==
    IF can_shorten(Normalized)
    THEN generate_all_ocr_variants(shorten(Normalized), hashOrder)
    ELSE <<>>

\* the resolver found its result through the shortening pass
FoundByShortening(result) ==
    /\ VariantMembers = {}
    /\ result \in master
    /\ result \in SeqToSet(Phase2Variants)

\* C17: every variant generated for a code c has exactly len(c) characters (for
\* the normalized candidate and for its shortened form), and every code the
\* resolver finds through the shortening pass has len(c) - 1 characters.
C17_VariantsKeepLengthShorteningDropsOne ==
    StringCall =>
        /\ \A v \in SeqToSet(Phase1Variants) : Len(v) = Len(Normalized)
        /\ \A v \in SeqToSet(Phase2Variants) : Len(v) = Len(shorten(Normalized))
        /\ FoundByShortening(rs_out.clean) => Len(rs_out.clean) = Len(Normalized) - 1
        /\ (RawCodeCall /\ FoundByShortening(rs_out.inline.validated))
              => Len(rs_out.inline.validated) = Len(Normalized) - 1

\* C17 witness: P0A8 has four variants of four characters, none in the master
\* list; its shortened form PA8 has the variant PAB, which both resolvers return.
C17_Witness ==
    /\ rs_in.called
    /\ rs_in.code = P0A8
    /\ Len(Phase1Variants) = 4
    /\ VariantMembers = {}
    /\ PAB \in master
    /\ rs_out.clean = PAB
    /\ rs_out.inline.validated = PAB

\* C28: for every candidate the extraction regex can produce and every master
\* list, the validation loop of extract_codes adds a code exactly when
\* clean_code_advanced returns a master code, and it adds that code
C28_InlineLoopAgreesWithCleanCodeAdvanced ==
    RawCodeCall =>
        /\ (rs_out.inline.validated # NoMatch) <=> (rs_out.clean \in master)
        /\ rs_out.inline.validated # NoMatch => rs_out.inline.validated = rs_out.clean

\* a call both resolve by the shortening: P0AB, with PAB but not P0AB on the list
C28_Witness ==
    /\ RawCodeCall
    /\ rs_in.code = P0AB
    /\ rs_out.inline.validated = PAB
    /\ rs_out.clean = PAB

----------------------------------------------------------------------------
(* OCRCorrector (ocr_correction.py) and the code categories               *)
(* (code_filters.py)                                                       *)

\* self.substitutions of OCRCorrector
substitutions(ch) ==
    CASE ch = "B" -> <<"8">>
      [] ch = "8" -> <<"B">>
      [] ch = "O" -> <<"0">>
      [] ch = "0" -> <<"O">>
      [] ch = "I" -> <<"1", "l">>
      [] ch = "1" -> <<"I", "l">>
      [] ch = "l" -> <<"I", "1">>
      [] ch = "S" -> <<"5", "Z">>
      [] ch = "5" -> <<"S", "Z">>
      [] ch = "Z" -> <<"S", "5", "2">>
      [] ch = "2" -> <<"Z">>
      [] ch = "G" -> <<"6">>
      [] ch = "6" -> <<"G">>
      [] ch = "E" -> <<"F">>
      [] ch = "F" -> <<"E">>
      [] OTHER -> <<>>

\* re.sub(r'\s+', '', code.strip())
clean_whitespace(code) == SelectSeq(strip(code), LAMBDA ch : ch \notin Whitespace)

apply_zero_rule(code) ==
    IF Len(code) > 3 /\ Len(code) > 1 /\ code[2] = "0" /\ Len(code) - 1 >= 3
    THEN <<code[1]>> \o SubSeq(code, 3, Len(code))
    ELSE code

\* every single substitution of cleaned_code, position by position, the
\* replacements of a character in table order
single_substitutions(cleaned_code) ==
    Concat([i \in 1..Len(cleaned_code) |->
               [k \in 1..Len(substitutions(cleaned_code[i])) |->
                   [cleaned_code EXCEPT ![i] = substitutions(cleaned_code[i])[k]]]])

\* the appends of generate_simple_variants: a variant, then its zero-rule form,
\* each only if it is new
RECURSIVE append_simple_variants(_, _)
append_simple_variants(variants, todo) ==
    IF todo = <<>> THEN variants
    ELSE LET variant_code == Head(todo)
             variant_with_zero_rule == apply_zero_rule(variant_code)
             v1 == IF variant_code \notin SeqToSet(variants)
                   THEN Append(variants, variant_code) ELSE variants
             v2 == IF /\ variant_with_zero_rule \notin SeqToSet(v1)
                      /\ variant_with_zero_rule # variant_code
                   THEN Append(v1, variant_with_zero_rule) ELSE v1
         IN  append_simple_variants(v2, Tail(todo))

generate_simple_variants(code) ==
    append_simple_variants(<<>>, single_substitutions(upper(clean_whitespace(code))))

\* the Cartesian product of generate_variants, as a set
RECURSIVE substitution_combinations(_)
substitution_combinations(cleaned_code) ==
    IF cleaned_code = <<>> THEN {<<>>}
    ELSE {<<h>> \o t :
            h \in {Head(cleaned_code)} \cup SeqToSet(substitutions(Head(cleaned_code))),
            t \in substitution_combinations(Tail(cleaned_code))}

generate_variants(code) ==
    LET cleaned_code == upper(clean_whitespace(code))
        positions_to_substitute ==
            {i \in DOMAIN cleaned_code : substitutions(cleaned_code[i]) # <<>>}
    IN  IF positions_to_substitute = {} THEN {cleaned_code}
        ELSE {cleaned_code}
             \cup substitution_combinations(cleaned_code)
             \cup {apply_zero_rule(v) : v \in substitution_combinations(cleaned_code)}

is_control_code(code) == code # NonString /\ code # <<>> /\ UpperChar(code[1]) = "I"

\* a categorisation that drops the control codes
categorize_without_control_codes(codes_set) ==
    [normal  |-> {code \in codes_set : ~is_control_code(code)},
     control |-> {}]

categorize_codes_by_type(codes_set) ==
    [normal  |-> {code \in codes_set : ~is_control_code(code)},
     control |-> {code \in codes_set : is_control_code(code)}]

----------------------------------------------------------------------------
(* extract_codes: from the text lines of a PDF to its validated codes.     *)
(* A text line is the sequence of its whitespace-separated tokens; the     *)
(* tokens of the documents below are alphanumeric, so the pattern          *)
(* \b[A-Z0-9]{3,7}\b finds exactly the upper-cased tokens of 3 to 7        *)
(* characters.                                                             *)

\* re.findall(r'\b' + regex_pattern + r'\b', line.upper())
found_codes(line) == SelectSeq([k \in DOMAIN line |-> upper(line[k])], is_raw_code)

\* the tuples (code, estimated_page, i * 10 + j) of line i (from 0)
raw_codes_of_line(line, i, page_line_counter, is_pdf2) ==
    [j \in 1..Len(found_codes(line)) |->
        <<found_codes(line)[j],
          ((IF is_pdf2 THEN page_line_counter ELSE i) \div 50) + 1,
          i * 10 + (j - 1)>>]

RECURSIVE find_raw_codes(_, _, _, _)
find_raw_codes(all_text_lines, i, page_line_counter, is_pdf2) ==
    IF i >= Len(all_text_lines) THEN <<>>
    ELSE raw_codes_of_line(all_text_lines[i + 1], i, page_line_counter, is_pdf2)
         \o find_raw_codes(all_text_lines, i + 1,
                           IF found_codes(all_text_lines[i + 1]) # <<>>
                           THEN page_line_counter + 1 ELSE page_line_counter,
                           is_pdf2)

\* the record the validation loop appends for raw code number i (from 0)
correction_record(info, i) ==
    [original |-> info.original,
     corrected |-> info.corrected,
     page |-> (i \div 10) + 1,
     position |-> i,
     corrections_applied |-> info.corrections_applied,
     corrections_count |-> info.corrections_count]

\* an extraction that counts every candidate as validated
extract_codes_keeping_all(all_text_lines, master_codes_set, is_pdf2, ord) ==
    [called |-> TRUE,
     codes |-> {c[1] : c \in SeqToSet(find_raw_codes(all_text_lines, 0, 0, is_pdf2))},
     raw_codes |-> find_raw_codes(all_text_lines, 0, 0, is_pdf2),
     all_text_lines |-> all_text_lines,
     correction_info |-> <<>>]

extract_codes(all_text_lines, master_codes_set, is_pdf2, ord) ==
    LET raw_codes_with_positions == find_raw_codes(all_text_lines, 0, 0, is_pdf2)
        resolved == [i \in DOMAIN raw_codes_with_positions |->
                        extract_codes_resolve(raw_codes_with_positions[i][1],
                                              master_codes_set, ord)]
        validated_codes_from_pdf ==
            {resolved[i].validated : i \in DOMAIN resolved} \ {NoMatch}
        correction_info ==
            Concat([i \in DOMAIN resolved |->
                       [k \in DOMAIN resolved[i].info |->
                           correction_record(resolved[i].info[k], i - 1)]])
    IN  [called |-> TRUE,
         codes |-> validated_codes_from_pdf,
         raw_codes |-> raw_codes_with_positions,
         all_text_lines |-> all_text_lines,
         correction_info |-> correction_info]

----------------------------------------------------------------------------
(* compare_codes_with_correction.  A correction or match entry keeps the   *)
(* fields original, corrected, page, probability and correction_type of    *)
(* the source and, as 'scored', the arguments its scorer call was made     *)
(* with; the comment text ('method') and the legend are presentation and   *)
(* are left out, as are pdf1_codes_list, pdf2_codes_list and the contexts  *)
(* of corrector.get_context_codes, which the function computes and never   *)
(* reads.                                                                  *)

\* the threshold of 'if probability >= 0.6', in hundredths
AdmissionGate == 60

\* " ".join(parts)
RECURSIVE join_with_space(_)
join_with_space(parts) ==
    IF parts = <<>> THEN <<>>
    ELSE IF Len(parts) = 1 THEN parts[1]
    ELSE parts[1] \o <<" ">> \o join_with_space(Tail(parts))

\* the sort key (x[1], x[2]) of a raw code: page, then position
position_le(a, b) == a[2] < b[2] \/ (a[2] = b[2] /\ a[3] <= b[3])

RECURSIVE insert_by_position(_, _)
insert_by_position(sorted, x) ==
    IF sorted = <<>> THEN <<x>>
    ELSE IF position_le(Head(sorted), x)
         THEN <<Head(sorted)>> \o insert_by_position(Tail(sorted), x)
         ELSE <<x>> \o sorted

\* sorted(raw_codes, key=lambda x: (x[1], x[2])): a stable sort
RECURSIVE sorted_by_position(_)
sorted_by_position(raw_codes) ==
    IF raw_codes = <<>> THEN <<>>
    ELSE insert_by_position(sorted_by_position(SubSeq(raw_codes, 1, Len(raw_codes) - 1)),
                            raw_codes[Len(raw_codes)])

\* a context list that keeps every cleaned candidate
unfiltered_codes(codes, master_codes_set) == codes

\* [code for code in all_validated if code in master_codes_set]
validated_only(codes, master_codes_set) ==
    SelectSeq(codes, LAMBDA code : code \in master_codes_set)

\* all_validated_pdf1 and all_validated_pdf2
all_validated(raw_codes, master_codes_set, ord) ==
    LET sorted == sorted_by_position(raw_codes)
    IN  validated_only([i \in DOMAIN sorted |->
                           clean_code_advanced(sorted[i][1], master_codes_set, ord)],
                       master_codes_set)

\* the arguments of one call of calculate_precise_probability
scorer_call(corrections_pdf1, corrections_pdf2, context_pdf1, context_pdf2, is_in_both) ==
    [corrections_pdf1 |-> corrections_pdf1, corrections_pdf2 |-> corrections_pdf2,
     context_pdf1 |-> context_pdf1, context_pdf2 |-> context_pdf2,
     is_in_both |-> is_in_both]

\* the probability that call returns
scored_probability(call) ==
    calculate_precise_probability(call.corrections_pdf1, call.corrections_pdf2,
                                  call.context_pdf1, call.context_pdf2,
                                  call.is_in_both).probability

\* the baseline and the final comparison: the three sets, whole and by category
three_sets(codes_a, codes_b) ==
    LET a == categorize_codes_by_type(codes_a)
        b == categorize_codes_by_type(codes_b)
        normal == [in_both |-> a.normal \cap b.normal,
                   only_in_pdf1 |-> a.normal \ b.normal,
                   only_in_pdf2 |-> b.normal \ a.normal]
        control == [in_both |-> a.control \cap b.control,
                    only_in_pdf1 |-> a.control \ b.control,
                    only_in_pdf2 |-> b.control \ a.control]
    IN  [in_both |-> normal.in_both \cup control.in_both,
         only_in_pdf1 |-> normal.only_in_pdf1 \cup control.only_in_pdf1,
         only_in_pdf2 |-> normal.only_in_pdf2 \cup control.only_in_pdf2,
         normal |-> normal,
         control |-> control]

\* the entry of one record of correction_info_pdf1 ("PDF1") or _pdf2 ("PDF2")
resolver_correction(corr_info, pdf_source, all_validated_pdf1, all_validated_pdf2) ==
    LET corrections_count ==
            count_corrections_needed(corr_info.original, corr_info.corrected)
        call == scorer_call(
                    IF pdf_source = "PDF1" THEN corrections_count ELSE 0,
                    IF pdf_source = "PDF1" THEN 0 ELSE corrections_count,
                    get_validated_context_codes(all_validated_pdf1, corr_info.corrected, 3),
                    get_validated_context_codes(all_validated_pdf2, corr_info.corrected, 3),
                    TRUE)
    IN  [original |-> corr_info.original,
         corrected |-> corr_info.corrected,
         page |-> <<IF pdf_source = "PDF1" THEN "Seite" ELSE "PDF2 Seite", corr_info.page>>,
         probability |-> scored_probability(call),
         correction_type |-> "Erweiterte OCR-Korrektur",
         scored |-> call]

\* tokens[start_idx:end_idx] for end_idx in range(start_idx + 2, min(start_idx + 4,
\* len(tokens) + 1)), start being start_idx + 1
groups_from(tokens, start) ==
    [k \in 1..Max2(0, Min2(start + 2, Len(tokens)) - start) |->
        SubSeq(tokens, start, start + k)]

\* every group of 2 or 3 adjacent tokens of a line, in loop order
token_groups(tokens) == Concat([start \in 1..Len(tokens) |-> groups_from(tokens, start)])

\* some token of the group is a substring of some master code
is_relevant(token_group, master_codes_set) ==
    \E k \in DOMAIN token_group : \E master_code \in master_codes_set :
        IsSubstring(upper(clean_whitespace(token_group[k])), master_code)

\* what one token group appends to whitespace_combinations
combinations_of_group(token_group, line_idx, master_codes_set) ==
    LET base_combined == clean_whitespace(Concat(token_group))
        simple_variants == generate_simple_variants(base_combined)
        first_three == SubSeq(simple_variants, 1, Min2(3, Len(simple_variants)))
        kept == SelectSeq(first_three,
                          LAMBDA variant : /\ variant # base_combined
                                           /\ Len(variant) >= 3 /\ Len(variant) <= 7)
    IN  IF /\ Len(base_combined) >= 3 /\ Len(base_combined) <= 7
           /\ is_relevant(token_group, master_codes_set)
        THEN <<[combined |-> base_combined, parts |-> token_group, line |-> line_idx,
                has_substitutions |-> FALSE, penalty |-> 0]>>
             \o [k \in DOMAIN kept |->
                    [combined |-> kept[k], parts |-> token_group, line |-> line_idx,
                     has_substitutions |-> TRUE, penalty |-> 10]]
        ELSE <<>>

\* raw_codes_only[i] + raw_codes_only[i + 1] raises TypeError when one of the
\* two is no str; the function catches nothing there
fallback_raises(all_text_lines_pdf1, raw_codes_pdf1) ==
    /\ all_text_lines_pdf1 = <<>>
    /\ \E i \in 1..(Len(raw_codes_pdf1) - 1) :
          NonString \in {raw_codes_pdf1[i][1], raw_codes_pdf1[i + 1][1]}

\* the fallback without text lines: each raw code joined with its successor
fallback_combinations(raw_codes_pdf1) ==
    Concat([i \in 1..(Len(raw_codes_pdf1) - 1) |->
               LET combined == clean_whitespace(raw_codes_pdf1[i][1]
                                                \o raw_codes_pdf1[i + 1][1])
               IN  IF Len(combined) >= 3 /\ Len(combined) <= 7
                   THEN <<[combined |-> combined,
                           parts |-> <<raw_codes_pdf1[i][1], raw_codes_pdf1[i + 1][1]>>,
                           line |-> i - 1,
                           has_substitutions |-> FALSE, penalty |-> 0]>>
                   ELSE <<>>])

whitespace_combinations(all_text_lines_pdf1, raw_codes_pdf1, master_codes_set) ==
    IF all_text_lines_pdf1 # <<>>
    THEN Concat([l \in DOMAIN all_text_lines_pdf1 |->
                    Concat([g \in DOMAIN token_groups(all_text_lines_pdf1[l]) |->
                               combinations_of_group(token_groups(all_text_lines_pdf1[l])[g],
                                                     l - 1, master_codes_set)])])
    ELSE fallback_combinations(raw_codes_pdf1)

\* the entry a whitespace combination is scored into, if its cleaned form is a
\* master code of the second PDF (one or none)
whitespace_correction(combo, codes_pdf2, all_validated_pdf1, all_validated_pdf2, master_codes_set, ord) ==
    LET combined_cleaned == clean_code_advanced(combo.combined, master_codes_set, ord)
        original == join_with_space(combo.parts)
        call == scorer_call(
                    count_corrections_needed(original, combined_cleaned), 0,
                    get_validated_context_codes(all_validated_pdf1, combined_cleaned, 3),
                    get_validated_context_codes(all_validated_pdf2, combined_cleaned, 3),
                    TRUE)
        probability ==
            IF combo.has_substitutions
            THEN Max2(10, Min2(100, scored_probability(call) + 10 - combo.penalty))
            ELSE scored_probability(call)
    IN  IF combined_cleaned \in master_codes_set /\ combined_cleaned \in codes_pdf2
        THEN <<[original |-> original,
                corrected |-> combined_cleaned,
                page |-> <<"Zeile", combo.line + 1>>,
                probability |-> probability,
                correction_type |-> "Korrekturmatch",
                scored |-> call]>>
        ELSE <<>>

\* the entries the raw codes of the first PDF are scored into for one code that
\* only the second PDF has
substitution_corrections(target_code, raw_codes_pdf1, all_validated_pdf1, all_validated_pdf2, master_codes_set, ord) ==
    Concat([i \in DOMAIN raw_codes_pdf1 |->
        LET cleaned_raw == clean_code_advanced(raw_codes_pdf1[i][1], master_codes_set, ord)
            call == scorer_call(
                        count_corrections_needed(cleaned_raw, target_code), 0,
                        get_validated_context_codes(all_validated_pdf1, target_code, 3),
                        get_validated_context_codes(all_validated_pdf2, target_code, 3),
                        TRUE)
        IN  IF /\ cleaned_raw \in generate_variants(target_code)
               /\ cleaned_raw \notin master_codes_set
            THEN <<[original |-> cleaned_raw,
                    corrected |-> target_code,
                    page |-> <<"Seite", raw_codes_pdf1[i][2]>>,
                    probability |-> scored_probability(call),
                    correction_type |-> "Korrekturmatch",
                    scored |-> call]>>
            ELSE <<>>])

\* a gate that lets every scored candidate pass
admit_everything(candidates) == candidates

\* 'if probability >= 0.6' of the whitespace and the substitution pass
admitted(candidates) ==
    SelectSeq(candidates, LAMBDA entry : entry.probability >= AdmissionGate)

\* a direct match scored with a window of three codes on each side
direct_match_three_wide(code, all_validated_pdf1, all_validated_pdf2) ==
    LET call == scorer_call(0, 0,
                    get_validated_context_codes(all_validated_pdf1, code, 3),
                    get_validated_context_codes(all_validated_pdf2, code, 3),
                    TRUE)
    IN  [original |-> code,
         corrected |-> code,
         page |-> <<"Beide", 0>>,
         probability |-> scored_probability(call),
         correction_type |-> "Direkter Match",
         scored |-> call]

\* the entry of a code of in_both that no record of correction_info names
direct_match(code, all_validated_pdf1, all_validated_pdf2) ==
    LET call == scorer_call(0, 0,
                    get_validated_context_codes(all_validated_pdf1, code, 1),
                    get_validated_context_codes(all_validated_pdf2, code, 1),
                    TRUE)
    IN  [original |-> code,
         corrected |-> code,
         page |-> <<"Beide", 0>>,
         probability |-> scored_probability(call),
         correction_type |-> "Direkter Match",
         scored |-> call]

\* a corrected set that starts empty
no_initial_codes(codes_pdf1) == {}

\* corrected_codes_pdf1 = set(codes_pdf1): what the passes add their codes to
initial_corrected_codes_pdf1(codes_pdf1) == codes_pdf1

\* order_only_in_pdf2 and order_in_both are the orders in which the loops over
\* the sets only_in_pdf2 and in_both visit their codes
compare_codes_with_correction(codes_pdf1, codes_pdf2, raw_codes_pdf1, raw_codes_pdf2, master_codes_set, all_text_lines_pdf1, correction_info_pdf1, correction_info_pdf2, ord, order_only_in_pdf2, order_in_both) ==
    LET all_validated_pdf1 == all_validated(raw_codes_pdf1, master_codes_set, ord)
        all_validated_pdf2 == all_validated(raw_codes_pdf2, master_codes_set, ord)
        from_pdf1 == [i \in DOMAIN correction_info_pdf1 |->
                         resolver_correction(correction_info_pdf1[i], "PDF1",
                                             all_validated_pdf1, all_validated_pdf2)]
        from_pdf2 == [i \in DOMAIN correction_info_pdf2 |->
                         resolver_correction(correction_info_pdf2[i], "PDF2",
                                             all_validated_pdf1, all_validated_pdf2)]
        combos == whitespace_combinations(all_text_lines_pdf1, raw_codes_pdf1,
                                          master_codes_set)
        whitespace_candidates ==
            Concat([k \in DOMAIN combos |->
                       whitespace_correction(combos[k], codes_pdf2, all_validated_pdf1,
                                             all_validated_pdf2, master_codes_set, ord)])
        substitution_candidates ==
            Concat([k \in DOMAIN order_only_in_pdf2 |->
                       substitution_corrections(order_only_in_pdf2[k], raw_codes_pdf1,
                                                all_validated_pdf1, all_validated_pdf2,
                                                master_codes_set, ord)])
        codes_with_corrections ==
            {info.corrected : info \in
                {i \in SeqToSet(correction_info_pdf1 \o correction_info_pdf2) :
                    i.corrections_count > 0}}
        direct_matches ==
            LET remaining == SelectSeq(order_in_both,
                                       LAMBDA code : code \notin codes_with_corrections)
            IN  [k \in DOMAIN remaining |->
                    direct_match(remaining[k], all_validated_pdf1, all_validated_pdf2)]
        corrected_codes_pdf1 ==
            initial_corrected_codes_pdf1(codes_pdf1)
            \cup {from_pdf1[i].corrected : i \in DOMAIN from_pdf1}
            \cup {entry.corrected : entry \in SeqToSet(admitted(whitespace_candidates))}
            \cup {entry.corrected : entry \in SeqToSet(admitted(substitution_candidates))}
    IN  IF fallback_raises(all_text_lines_pdf1, raw_codes_pdf1)
        THEN [called |-> TRUE, raised |-> "TypeError"]
        ELSE
        [called |-> TRUE,
         original |-> three_sets(codes_pdf1, codes_pdf2),
         corrected |-> three_sets(corrected_codes_pdf1, codes_pdf2),
         corrections |-> from_pdf1 \o from_pdf2 \o admitted(whitespace_candidates)
                         \o admitted(substitution_candidates) \o direct_matches,
         scorer_calls |-> {entry.scored : entry \in
                              SeqToSet(from_pdf1 \o from_pdf2 \o whitespace_candidates
                                       \o substitution_candidates \o direct_matches)}]

\* compare_codes: the three sets of the plain comparison
compare_codes(codes_pdf1, codes_pdf2) ==
    <<codes_pdf1 \cap codes_pdf2, codes_pdf1 \ codes_pdf2, codes_pdf2 \ codes_pdf1>>

----------------------------------------------------------------------------
(* Engine: the worker of main.py (run_in_thread) on two PDFs: extract the  *)
(* first, extract the second, compare; then the program is started again   *)
(* on the same files.                                                      *)

EB0B == <<"E", "B", "0", "B">>
E808 == <<"E", "8", "0", "8">>
EB08 == <<"E", "B", "0", "8">>
E8O8 == <<"E", "8", "O", "8">>
FB0B == <<"F", "B", "0", "B">>
XAY == <<"X", "A", "Y">>
QQQ == <<"Q", "Q", "Q">>
EB0 == <<"E", "B", "0">>
Frag8 == <<"8">>
FragB == <<"B">>
A1X == <<"A", "1", "X">>
B2Y == <<"B", "2", "Y">>

\* the master lists of the engine runs
EngineMasters == {{EB0B, E808, XAY}, {EB0B, XAY}}

\* the text lines a first PDF is made of: a master code between a neighbour and
\* a token no master code matches, a code one substitution away, a code three
\* substitutions away, a code split in two tokens (twice), a code with a
\* confusion only OCRCorrector knows (E/F), a line in lower case
EngineLines ==
    {<<XAY, QQQ, EB0B>>, <<EB0B, XAY>>, <<EB08, XAY>>, <<E8O8>>, <<EB0, Frag8>>,
     <<EB0, FragB>>, <<FB0B, XAY>>,
     <<<<"e", "b", "0", "b">>, <<"x", "a", "y">>>>}

\* the lines a two-line PDF starts with
EngineFirstLines == {<<EB0B, XAY>>}

\* the first PDFs: no text, one line, two lines
EnginePdf1s ==
    {<<>>} \cup {<<l>> : l \in EngineLines}
    \cup {<<l, m>> : l \in EngineFirstLines, m \in EngineLines}

\* the second PDFs
EnginePdf2s == {<<<<XAY, EB0B>>>>, <<<<EB0B>>>>, <<<<XAY>>, <<EB08>>>>}

\* two documents with the same two master codes, on one line or on two, and
\* their master list
ExamplePdfs == {<<<<A1X, B2Y>>>>, <<<<A1X>>, <<B2Y>>>>}

ExampleMaster == {A1X, B2Y, P0B}

XYZ == <<"X", "Y", "Z">>
FragX == <<"X">>
FragYZ == <<"Y", "Z">>

\* a code in two tokens of one line that no validated code surrounds; a code with
\* a 0 in second place that only the shortening resolves; a code one
\* substitution away from the only master code
SingleRuns ==
    {<<<<<<FragX, FragYZ>>>>, <<<<XYZ>>>>, {XYZ}>>,
     <<<<<<P0AB>>>>, <<<<PAB>>>>, {PAB}>>,
     <<<<<<P08>>>>, <<<<P0B>>>>, {P0B}>>}

\* a run with an empty master list: a code in both documents beside a token of
\* the first only
EmptyMasterRuns == {<<<<<<XAY, QQQ>>>>, <<<<XAY>>>>, {}>>}

\* the runs of the engine: first PDF, second PDF, master list
EngineInputs ==
    (EnginePdf1s \X EnginePdf2s \X EngineMasters)
    \cup (ExamplePdfs \X ExamplePdfs \X {ExampleMaster})
    \cup SingleRuns
    \cup EmptyMasterRuns

\* the characters whose sets get_variants_for_position builds in a run: those of
\* the tokens, as line.upper() reads them, and, for a token that is no master
\* code, those of its substituted forms too, which the fragment merge cleans
\* again
DocumentChars(lines1, lines2, master_codes) ==
    LET tokens == UNION {SeqToSet(line) : line \in SeqToSet(lines1 \o lines2)}
        unmatched == {token \in tokens : upper(token) \notin master_codes}
        substituted == UNION {SeqToSet(upper(token)) : token \in unmatched}
    IN  UNION {SeqToSet(upper(token)) : token \in tokens}
        \cup UNION {variants_at(ch) : ch \in substituted}

InitEngine ==
    /\ GuiConstructed
    /\ \E input \in EngineInputs :
          /\ pdf1 = input[1]
          /\ pdf2 = input[2]
          /\ master = input[3]
    /\ hashOrder \in HashOrdersFor(DocumentChars(pdf1, pdf2, master))
    /\ result_pdf1 = NoCall
    /\ result_pdf2 = NoCall
    /\ comparison_result = NoCall
    /\ previous_run = NoCall
    /\ fn_in = NoCall
    /\ fn_out = NoCall
    /\ restarts = 0
    /\ sc_in = NoCall
    /\ sc_out = NoCall
    /\ rs_in = NoCall
    /\ rs_out = NoCall
    /\ rs_prev = NoCall

\* result_pdf1 = core.extract_codes(pdf1_path, ...)
ExtractPdf1 ==
    /\ ~result_pdf1.called
    /\ result_pdf1' = extract_codes(pdf1, master, FALSE, hashOrder)
    /\ UNCHANGED <<guiVars, hashOrder, master, scorerVars, resolverVars, functionVars, restarts, pdf1, pdf2,
                   result_pdf2, comparison_result, previous_run>>

\* result_pdf2 = core.extract_codes(pdf2_path, ..., is_pdf2=True)
ExtractPdf2 ==
    /\ result_pdf1.called
    /\ ~result_pdf2.called
    /\ result_pdf2' = extract_codes(pdf2, master, TRUE, hashOrder)
    /\ UNCHANGED <<guiVars, hashOrder, master, scorerVars, resolverVars, functionVars, restarts, pdf1, pdf2,
                   result_pdf1, comparison_result, previous_run>>

\* comparison_result = core.compare_codes_with_correction(...)
Compare ==
    /\ result_pdf2.called
    /\ ~comparison_result.called
    /\ \E order_only_in_pdf2 \in Perms(result_pdf2.codes \ result_pdf1.codes),
          order_in_both \in Perms(result_pdf1.codes \cap result_pdf2.codes) :
          comparison_result' =
              compare_codes_with_correction(
                  result_pdf1.codes, result_pdf2.codes,
                  result_pdf1.raw_codes, result_pdf2.raw_codes, master,
                  result_pdf1.all_text_lines,
                  result_pdf1.correction_info, result_pdf2.correction_info,
                  hashOrder, order_only_in_pdf2, order_in_both)
    /\ UNCHANGED <<guiVars, hashOrder, master, scorerVars, resolverVars, functionVars, restarts, pdf1, pdf2,
                   result_pdf1, result_pdf2, previous_run>>

\* the program ends and is started again on the same two files and the same
\* master list: the interpreter draws new string hashes
EngineRestart ==
    /\ comparison_result.called
    /\ restarts < MaxRestarts
    /\ restarts' = restarts + 1
    /\ previous_run' = [called |-> TRUE,
                        result_pdf1 |-> result_pdf1,
                        result_pdf2 |-> result_pdf2,
                        comparison_result |-> comparison_result]
    /\ result_pdf1' = NoCall
    /\ result_pdf2' = NoCall
    /\ comparison_result' = NoCall
    /\ hashOrder' \in HashOrdersFor(DocumentChars(pdf1, pdf2, master))
    /\ UNCHANGED <<guiVars, master, scorerVars, resolverVars, functionVars, pdf1, pdf2>>

NextEngine == ExtractPdf1 \/ ExtractPdf2 \/ Compare \/ EngineRestart

SpecEngine == InitEngine /\ [][NextEngine]_vars

(* ---- claims about the engine ---- *)

\* the entries of a result that are corrections, not direct matches
CorrectionEntries(result) ==
    {entry \in SeqToSet(result.corrections) : entry.correction_type # "Direkter Match"}

DirectMatchEntries(result) ==
    {i \in DOMAIN result.corrections :
        result.corrections[i].correction_type = "Direkter Match"}

\* the codes of the final membership sets of a result
FinalMembership(result) ==
    result.corrected.in_both \cup result.corrected.only_in_pdf1
        \cup result.corrected.only_in_pdf2

\* C1: no correction with a probability below 0.60 has its corrected code in the
\* final corrected membership sets, whichever of the three passes found it.
C1_NoCorrectionBelowGateIsAdmitted ==
    comparison_result.called =>
        \A entry \in CorrectionEntries(comparison_result) :
            entry.corrected \in FinalMembership(comparison_result)
                => entry.probability >= 60

\* the codes and probabilities of the entries of a result, whatever their order
EntryProbabilities(result) ==
    {<<entry.original, entry.corrected, entry.correction_type, entry.probability>> :
        entry \in SeqToSet(result.corrections)}

IsCanonical(code) == code \in master /\ upper(code) = code

\* the raw candidates of an extraction that the resolver leaves unmatched
UnmatchedCandidates(result) ==
    {result.raw_codes[i][1] : i \in
        {j \in DOMAIN result.raw_codes :
            clean_code_advanced(result.raw_codes[j][1], master, hashOrder) \notin master}}

\* every code of a context window handed to the scorer in a comparison
ScoredWindowCodes(result) ==
    UNION {SeqToSet(call.context_pdf1.before) \cup SeqToSet(call.context_pdf1.after)
           \cup SeqToSet(call.context_pdf2.before) \cup SeqToSet(call.context_pdf2.after) :
              call \in result.scorer_calls}

ValidatedSetIsCanonical(result) ==
    result.called =>
        /\ \A code \in result.codes : IsCanonical(code)
        /\ UnmatchedCandidates(result) \cap result.codes = {}

\* C9: every code of a validated set of extract_codes and every code of a context
\* window handed to the scorer is an upper-case master code; a candidate the
\* resolver leaves unmatched is in neither.
C9_OnlyCanonicalCodesAreValidated ==
    /\ ValidatedSetIsCanonical(result_pdf1)
    /\ ValidatedSetIsCanonical(result_pdf2)
    /\ comparison_result.called =>
          /\ \A code \in ScoredWindowCodes(comparison_result) : IsCanonical(code)
          /\ (UnmatchedCandidates(result_pdf1) \cup UnmatchedCandidates(result_pdf2))
                 \cap ScoredWindowCodes(comparison_result) = {}

\* C9 witness: the first PDF reads XAY QQQ EB0B, QQQ stays unmatched, and EB0B is
\* scored with the window that skips it: XAY is the code before EB0B.
C9_Witness ==
    /\ comparison_result.called
    /\ pdf1 = <<<<XAY, QQQ, EB0B>>>>
    /\ QQQ \in UnmatchedCandidates(result_pdf1)
    /\ result_pdf1.codes = {XAY, EB0B}
    /\ \E call \in comparison_result.scorer_calls :
          /\ call.context_pdf1.before = <<XAY>>
          /\ call.context_pdf2.before = <<XAY>>

\* C10: a code with a correction entry of any pass has no 'Direkter Match' entry;
\* every other code of the baseline in_both set has exactly one.
C10_DirectMatchOnlyWithoutCorrection ==
    comparison_result.called =>
        /\ \A entry \in CorrectionEntries(comparison_result) :
              \A i \in DirectMatchEntries(comparison_result) :
                  comparison_result.corrections[i].corrected # entry.corrected
        /\ \A code \in comparison_result.original.in_both :
              (\A entry \in CorrectionEntries(comparison_result) : entry.corrected # code)
              => Cardinality({i \in DirectMatchEntries(comparison_result) :
                                comparison_result.corrections[i].corrected = code}) = 1

\* C13: the corrections only add codes to the side of the first document: the
\* corrected in_both and only_in_pdf2 together are exactly the codes of the
\* second document, the corrected in_both contains the original in_both, and a
\* code only the first document had is still only in the first document.
C13_CorrectionsOnlyExtendFirstDocument ==
    comparison_result.called =>
        /\ comparison_result.corrected.in_both \cup comparison_result.corrected.only_in_pdf2
               = result_pdf2.codes
        /\ comparison_result.original.in_both \subseteq comparison_result.corrected.in_both
        /\ comparison_result.original.only_in_pdf1
               \subseteq comparison_result.corrected.only_in_pdf1

\* C13 witness: a merge of two tokens of the first document added EB0B, which
\* the second document has, while XAY stays a code of the first document only.
C13_Witness ==
    /\ comparison_result.called
    /\ pdf1 = <<<<EB0B, XAY>>, <<EB0, FragB>>>>
    /\ pdf2 = <<<<EB0B>>>>
    /\ \E entry \in CorrectionEntries(comparison_result) : entry.corrected = EB0B
    /\ comparison_result.original.only_in_pdf1 = {XAY}
    /\ comparison_result.corrected.only_in_pdf1 = {XAY}
    /\ comparison_result.corrected.in_both = {EB0B}

\* the run of the example: both documents read A1X B2Y, on one line or on two,
\* and the master list is {A1X, B2Y, P0B}
ExampleRun ==
    /\ comparison_result.called
    /\ master = ExampleMaster
    /\ pdf1 \in ExamplePdfs
    /\ pdf2 \in ExamplePdfs

\* the probabilities of the entries of a result for one code
ProbabilitiesOf(result, code) ==
    {entry.probability : entry \in {x \in SeqToSet(result.corrections) : x.corrected = code}}

\* in_both is {A1X, B2Y} before and after the corrections and no entry is a correction
ExampleSetsAsStated ==
    /\ comparison_result.original.in_both = {A1X, B2Y}
    /\ comparison_result.corrected.in_both = {A1X, B2Y}
    /\ CorrectionEntries(comparison_result) = {}
    /\ Len(comparison_result.corrections) = 2

\* C12 as stated: in the example in_both is {A1X, B2Y}, there is no correction
\* entry and the probability of each code is 0.80.
C12_ExampleAllEighty ==
    ExampleRun =>
        /\ ExampleSetsAsStated
        /\ ProbabilitiesOf(comparison_result, A1X) = {80}
        /\ ProbabilitiesOf(comparison_result, B2Y) = {80}

\* C12 amended: in the example in_both is {A1X, B2Y}, there is no correction
\* entry, and each code has its context bonus: A1X, whose successor B2Y is the
\* same in both documents, 0.88; B2Y, whose predecessor A1X is the same, 0.90.
C12_ExampleWithContextBonus ==
    ExampleRun =>
        /\ ExampleSetsAsStated
        /\ ProbabilitiesOf(comparison_result, A1X) = {88}
        /\ ProbabilitiesOf(comparison_result, B2Y) = {90}

\* C12 witness: the example has run, with both codes on one line of each
\* document, and returned one direct match for each code.
C12_Witness ==
    /\ ExampleRun
    /\ pdf1 = <<<<A1X, B2Y>>>>
    /\ pdf2 = <<<<A1X, B2Y>>>>
    /\ {comparison_result.corrections[i].corrected :
           i \in DirectMatchEntries(comparison_result)} = {A1X, B2Y}

\* the entries of a result that the fragment merge recorded
FragmentMergeEntries(result) ==
    {entry \in SeqToSet(result.corrections) : entry.page[1] = "Zeile"}

\* the groups of 2 or 3 adjacent tokens of a line
AdjacentGroups(line) ==
    {group \in {SubSeq(line, a, b) : a \in 1..Len(line), b \in 1..Len(line)} :
        Len(group) \in {2, 3}}

\* C21: a fragment-merge correction is recorded only for a group of 2 or 3
\* adjacent tokens of one line of the first document whose concatenation has 3
\* to 7 characters and of which some token is a substring of a master code, only
\* with a corrected code that is a master code of the second document's code
\* set, and only with a probability of at least 0.60
C21_FragmentMergeOnlyUnderItsConditions ==
    comparison_result.called =>
        \A entry \in FragmentMergeEntries(comparison_result) :
            /\ entry.page[2] \in 1..Len(pdf1)
            /\ \E group \in AdjacentGroups(pdf1[entry.page[2]]) :
                  /\ join_with_space(group) = entry.original
                  /\ Len(Concat(group)) >= 3
                  /\ Len(Concat(group)) <= 7
                  /\ \E k \in DOMAIN group : \E master_code \in master :
                        IsSubstring(upper(group[k]), master_code)
            /\ entry.corrected \in master
            /\ entry.corrected \in result_pdf2.codes
            /\ entry.probability >= 60

\* a run that recorded the merge of the tokens EB0 and B into EB0B
C21_Witness ==
    /\ comparison_result.called
    /\ \E entry \in FragmentMergeEntries(comparison_result) :
          /\ entry.original = join_with_space(<<EB0, FragB>>)
          /\ entry.corrected = EB0B

\* the entries of a result that come from the records of correction_info
ResolverEntries(result) ==
    {entry \in SeqToSet(result.corrections) :
        entry.correction_type = "Erweiterte OCR-Korrektur"}

\* the validated codes of the document a resolver entry does not come from
OtherDocumentCodes(entry) ==
    IF entry.page[1] = "PDF2 Seite" THEN result_pdf1.codes ELSE result_pdf2.codes

\* the corrections counted for the document a resolver entry comes from
CountedCorrections(entry) ==
    entry.scored.corrections_pdf1 + entry.scored.corrections_pdf2

\* C25: a resolver-sourced correction whose corrected code is not among the
\* validated codes of the other document is scored as 'not in both': its
\* probability is the one-document base max(0, 0.40 - 0.10 * c), without a
\* context bonus
C25_OneDocumentCorrectionScoredAsSuch ==
    comparison_result.called =>
        \A entry \in ResolverEntries(comparison_result) :
            entry.corrected \notin OtherDocumentCodes(entry)
            => (/\ ~entry.scored.is_in_both
                /\ entry.probability = Max2(0, 40 - 10 * CountedCorrections(entry)))

\* the operations the resolver applied to get from a raw code to its master
\* code: the shortening, if the lengths differ, and one per character that then
\* still differs
OperationsApplied(original, corrected) ==
    IF Len(original) = Len(corrected)
    THEN Cardinality({i \in DOMAIN original : original[i] # corrected[i]})
    ELSE LET shortened == <<original[1]>> \o SubSeq(original, 3, Len(original))
         IN  1 + Cardinality({i \in DOMAIN shortened : shortened[i] # corrected[i]})

\* C26: the correction count a resolver-sourced correction is penalised with is
\* the number of operations the resolver applied: one per substituted character
\* plus one for the shortening
C26_PenaltyCountsAppliedOperations ==
    comparison_result.called =>
        \A entry \in ResolverEntries(comparison_result) :
            CountedCorrections(entry) = OperationsApplied(entry.original, entry.corrected)

\* the candidates the regex found in a document
Candidates(result) == {result.raw_codes[i][1] : i \in DOMAIN result.raw_codes}

EmptyVocabularyRun == master = {} /\ comparison_result.called

\* no candidate is validated and no correction or match is listed
EndsUnmatchedWithoutCorrections ==
    /\ result_pdf1.codes = {}
    /\ result_pdf2.codes = {}
    /\ comparison_result.corrections = <<>>
    /\ comparison_result.scorer_calls = {}

\* the statement as the specification has it: with an empty master list every
\* candidate ends unmatched, nothing is corrected, and every candidate is
\* reported as a code of one document only
C22_EmptyVocabularyReportsCandidatesAsExclusive ==
    EmptyVocabularyRun =>
        /\ EndsUnmatchedWithoutCorrections
        /\ Candidates(result_pdf1) \subseteq comparison_result.corrected.only_in_pdf1
        /\ Candidates(result_pdf2) \subseteq comparison_result.corrected.only_in_pdf2

\* C22: with an empty master list every candidate ends unmatched and the
\* comparison completes with no correction and no match; it reports no code at
\* all: the sets of codes in both documents, only in the first and only in the
\* second are empty before and after the corrections.
C22_EmptyVocabularyReportsNothing ==
    EmptyVocabularyRun =>
        /\ EndsUnmatchedWithoutCorrections
        /\ comparison_result.original.in_both = {}
        /\ comparison_result.original.only_in_pdf1 = {}
        /\ comparison_result.original.only_in_pdf2 = {}
        /\ FinalMembership(comparison_result) = {}

\* C22 witness: XAY is read in both documents and QQQ in the first, the master
\* list is empty, and the finished comparison holds neither
C22_Witness ==
    /\ EmptyVocabularyRun
    /\ Candidates(result_pdf1) = {XAY, QQQ}
    /\ Candidates(result_pdf2) = {XAY}
    /\ FinalMembership(comparison_result) = {}
    /\ comparison_result.corrections = <<>>

----------------------------------------------------------------------------
(* Functions: the helpers of core.py called on their own, one call per     *)
(* behaviour: direct-match scoring, the context window, the correction     *)
(* count, the baseline comparison and the variant generator                *)

\* longest list of validated codes of a document
MaxList == 4

\* the validated codes the lists of a document are made of
ContextCodes == {A1X, B2Y, P0B}

\* the lists of validated codes of a document, in document order
ValidatedLists == SeqsUpTo(ContextCodes, MaxList)

InitFunctions ==
    /\ GuiConstructed
    /\ hashOrder \in HashOrdersFor({})
    /\ master = {}
    /\ sc_in = NoCall
    /\ sc_out = NoCall
    /\ rs_in = NoCall
    /\ rs_out = NoCall
    /\ rs_prev = NoCall
    /\ restarts = 0
    /\ pdf1 = <<>>
    /\ pdf2 = <<>>
    /\ result_pdf1 = NoCall
    /\ result_pdf2 = NoCall
    /\ comparison_result = NoCall
    /\ previous_run = NoCall
    /\ fn_in = NoCall
    /\ fn_out = NoCall

\* Phase D for one code of in_both: the entry of a direct match
DirectMatchCall ==
    /\ ~fn_in.called
    /\ \E code \in ContextCodes, l1 \in ValidatedLists, l2 \in ValidatedLists :
          /\ fn_in' = [called |-> TRUE, fn |-> "direct_match", code |-> code,
                       all_validated_pdf1 |-> l1, all_validated_pdf2 |-> l2]
          /\ fn_out' = direct_match(code, l1, l2)
    /\ UNCHANGED <<guiVars, hashOrder, master, scorerVars, resolverVars, restarts, engineVars>>

I1X == <<"I", "1", "X">>
I2Y == <<"I", "2", "Y">>

\* the validated codes of the baseline comparisons: two normal codes and two
\* control codes
BaselineCodes == {A1X, B2Y, I1X, I2Y}

\* compare_codes_with_correction and compare_codes on two sets of validated
\* codes, with no raw candidates, no text lines and no correction records
BaselineCall ==
    /\ ~fn_in.called
    /\ \E codes_pdf1 \in SUBSET BaselineCodes, codes_pdf2 \in SUBSET BaselineCodes :
          /\ fn_in' = [called |-> TRUE, fn |-> "compare_codes",
                       codes_pdf1 |-> codes_pdf1, codes_pdf2 |-> codes_pdf2]
          /\ \E order_only_in_pdf2 \in Perms(codes_pdf2 \ codes_pdf1),
                order_in_both \in Perms(codes_pdf1 \cap codes_pdf2) :
                fn_out' =
                    [original |->
                         compare_codes_with_correction(
                             codes_pdf1, codes_pdf2, <<>>, <<>>, BaselineCodes, <<>>,
                             <<>>, <<>>, hashOrder, order_only_in_pdf2,
                             order_in_both).original,
                     plain |-> compare_codes(codes_pdf1, codes_pdf2)]
    /\ UNCHANGED <<guiVars, hashOrder, master, scorerVars, resolverVars, restarts, engineVars>>

\* longest code of the variant calls that run over every code of an alphabet
MaxCodeLen == 3

\* a character without confusables, one with one and one with two
VariantAlphabet == {"P", "0", "8", "I"}

\* the longest code the extraction regex finds, with three variants at every
\* position
LongestCode == <<"I", "I", "I", "I", "I", "I", "I">>

\* the codes of the variant calls
VariantCodes == SeqsUpTo(VariantAlphabet, MaxCodeLen) \cup {LongestCode}

\* generate_all_ocr_variants(code) in a process whose sets iterate in the order
\* ord, which this call is the only one to read
VariantsCall ==
    /\ ~fn_in.called
    /\ \E code \in VariantCodes :
          \E ord \in HashOrdersFor(SeqToSet(code)) :
              /\ hashOrder' = ord
              /\ fn_in' = [called |-> TRUE, fn |-> "generate_all_ocr_variants",
                           code |-> code]
              /\ fn_out' = generate_all_ocr_variants(code, ord)
    /\ UNCHANGED <<guiVars, master, scorerVars, resolverVars, restarts, engineVars>>

\* get_validated_context_codes(all_validated_codes, target_code, context_size)
ContextCall ==
    /\ ~fn_in.called
    /\ \E list \in ValidatedLists, code \in ContextCodes \cup {QQQ},
          k \in 1..MaxCtx :
          /\ fn_in' = [called |-> TRUE, fn |-> "get_validated_context_codes",
                       all_validated_codes |-> list, target_code |-> code,
                       context_size |-> k]
          /\ fn_out' = get_validated_context_codes(list, code, k)
    /\ UNCHANGED <<guiVars, hashOrder, master, scorerVars, resolverVars, restarts, engineVars>>

\* longest string of the correction counts
MaxStrLen == 3

\* upper case, lower case and blank
CountAlphabet == {"A", "a", "B", " "}

CountStrings == SeqsUpTo(CountAlphabet, MaxStrLen)

\* count_corrections_needed(original, corrected)
CountCall ==
    /\ ~fn_in.called
    /\ \E original \in CountStrings, corrected \in CountStrings :
          /\ fn_in' = [called |-> TRUE, fn |-> "count_corrections_needed",
                       original |-> original, corrected |-> corrected]
          /\ fn_out' = count_corrections_needed(original, corrected)
    /\ UNCHANGED <<guiVars, hashOrder, master, scorerVars, resolverVars, restarts, engineVars>>

\* calculate_precise_probability called twice on the same windows and the same
\* flag, the second time with one more correction in one of the documents;
\* document 2's windows are of full length, so that document 1's windows decide
\* how many offsets are compared and which agree
ScoreTwiceCall ==
    /\ ~fn_in.called
    /\ \E c1 \in 0..MaxCorr, c2 \in 0..MaxCorr, in_both \in BOOLEAN,
          b1 \in ScorerWindows1, a1 \in ScorerWindows1, more \in {<<1, 0>>, <<0, 1>>} :
          LET context_pdf1 == [before |-> b1, after |-> a1]
              full == [i \in 1..MaxCtx |-> A1X]
              context_pdf2 == [before |-> full, after |-> full]
          IN  /\ fn_in' = [called |-> TRUE, fn |-> "calculate_precise_probability",
                           corrections_pdf1 |-> c1, corrections_pdf2 |-> c2,
                           more |-> more,
                           context_pdf1 |-> context_pdf1, context_pdf2 |-> context_pdf2,
                           is_in_both |-> in_both]
              /\ fn_out' = [first |-> calculate_precise_probability(
                                          c1, c2, context_pdf1, context_pdf2, in_both),
                            second |-> calculate_precise_probability(
                                           c1 + more[1], c2 + more[2],
                                           context_pdf1, context_pdf2, in_both)]
    /\ UNCHANGED <<guiVars, hashOrder, master, scorerVars, resolverVars, restarts, engineVars>>

A01X == <<"A", "0", "1", "X">>

\* lower case, a digit, blank and two of the trailing punctuation characters
CleanAlphabet == {"a", "0", " ", ".", ")"}

\* the candidates of clean_code: every short string, the code of the test, a
\* code in lower case between blanks with punctuation after it, and None
CleanCandidates ==
    SeqsUpTo(CleanAlphabet, MaxStrLen)
    \cup {A01X, <<" ", "a", "0", "1", "x", ".", ";", " ">>, NonString}

\* clean_code(code) and clean_code(code, set()): no master list
CleanCall ==
    /\ ~fn_in.called
    /\ \E code \in CleanCandidates, master_codes_set \in {NoVocabulary, {}} :
          /\ fn_in' = [called |-> TRUE, fn |-> "clean_code",
                       code |-> code, master_codes_set |-> master_codes_set]
          /\ fn_out' = clean_code(code, master_codes_set, hashOrder)
    /\ UNCHANGED <<guiVars, hashOrder, master, scorerVars, resolverVars, restarts, engineVars>>

\* most raw candidates of the first document in a call of the comparison
MaxRaw == 3

\* raw candidates: two master codes, None and the empty string
CompareCandidates == {XAY, EB0B, NonString, <<>>}

CompareMaster == {EB0B, XAY}

\* the raw candidates of the second document
SecondRawLists == {<<>>, <<EB0B>>, <<XAY, EB0B>>, <<NonString>>}

\* the tuples (code, page, position) of a list of candidates on page 1
raw_tuples(candidates) == [i \in DOMAIN candidates |-> <<candidates[i], 1, i - 1>>]

\* the one text line the candidates that are words stand on
line_of(candidates) ==
    SelectSeq(candidates, LAMBDA c : c # NonString /\ c # <<>>)

\* compare_codes_with_correction on candidate lists that hold an empty string
\* or None, with the text line of the first document or without text lines
CompareCall ==
    /\ ~fn_in.called
    /\ \E candidates1 \in SeqsUpTo(CompareCandidates, MaxRaw),
          candidates2 \in SecondRawLists,
          with_lines \in BOOLEAN :
          LET codes_pdf1 == SeqToSet(candidates1) \cap CompareMaster
              codes_pdf2 == SeqToSet(candidates2) \cap CompareMaster
              lines == IF with_lines THEN <<line_of(candidates1)>> ELSE <<>>
          IN  \E order_only_in_pdf2 \in Perms(codes_pdf2 \ codes_pdf1),
                 order_in_both \in Perms(codes_pdf1 \cap codes_pdf2) :
                 /\ fn_in' = [called |-> TRUE, fn |-> "compare_codes_with_correction",
                              candidates1 |-> candidates1, candidates2 |-> candidates2,
                              all_text_lines_pdf1 |-> lines]
                 /\ fn_out' = compare_codes_with_correction(
                                  codes_pdf1, codes_pdf2,
                                  raw_tuples(candidates1), raw_tuples(candidates2),
                                  CompareMaster, lines, <<>>, <<>>,
                                  hashOrder, order_only_in_pdf2, order_in_both)
    /\ UNCHANGED <<guiVars, hashOrder, master, scorerVars, resolverVars, restarts, engineVars>>

NextFunctions == DirectMatchCall \/ BaselineCall \/ VariantsCall \/ ContextCall \/ CountCall \/ ScoreTwiceCall \/ CleanCall \/ CompareCall

SpecFunctions == InitFunctions /\ [][NextFunctions]_vars

(* ---- claims about the functions ---- *)

DirectMatchCalled == fn_in.called /\ fn_in.fn = "direct_match"

\* the position of the first occurrence of code in list, 0 if there is none
FirstOccurrence(list, code) ==
    IF \E i \in DOMAIN list : list[i] = code
    THEN CHOOSE i \in DOMAIN list :
            list[i] = code /\ \A j \in DOMAIN list : list[j] = code => i <= j
    ELSE 0

\* the codes at distance d before (d < 0) or after (d > 0) the code in the two
\* lists exist and are the same code
NeighboursAgree(code, l1, l2, d) ==
    LET i1 == FirstOccurrence(l1, code)
        i2 == FirstOccurrence(l2, code)
    IN  /\ i1 > 0 /\ i2 > 0
        /\ i1 + d \in DOMAIN l1
        /\ i2 + d \in DOMAIN l2
        /\ l1[i1 + d] = l2[i2 + d]

\* 0.80, plus 0.10 for an agreeing predecessor, plus 0.08 for an agreeing successor
StatedDirectProbability(code, l1, l2) ==
    80 + (IF NeighboursAgree(code, l1, l2, -1) THEN 10 ELSE 0)
       + (IF NeighboursAgree(code, l1, l2, 1) THEN 8 ELSE 0)

\* C11: the probability of a direct match is 0.80, 0.88, 0.90 or 0.98, decided by
\* the codes immediately before and after it in the two documents alone:
\* whatever stands at distance 2 or 3 does not change it.
C11_DirectMatchUsesNearestNeighboursOnly ==
    DirectMatchCalled =>
        /\ fn_out.probability \in {80, 88, 90, 98}
        /\ fn_out.probability =
               StatedDirectProbability(fn_in.code, fn_in.all_validated_pdf1,
                                       fn_in.all_validated_pdf2)

\* C11 witness: the code stands third in both documents, the codes right before
\* and right after it agree, the codes two places before it differ: 0.98.
C11_Witness ==
    /\ DirectMatchCalled
    /\ fn_in.code = A1X
    /\ fn_in.all_validated_pdf1 = <<P0B, B2Y, A1X, B2Y>>
    /\ fn_in.all_validated_pdf2 = <<B2Y, B2Y, A1X, B2Y>>
    /\ ~NeighboursAgree(A1X, fn_in.all_validated_pdf1, fn_in.all_validated_pdf2, -2)
    /\ fn_out.probability = 98

BaselineCalled == fn_in.called /\ fn_in.fn = "compare_codes"

\* the codes of a set that start with 'I'
StartingWithI(codes) == {code \in codes : code[1] = "I"}

\* a set of the comparison is the disjoint union of its normal part and its
\* control part, the control part being its codes that start with 'I'
SplitByCategory(sets, which) ==
    /\ sets.normal[which] \cup sets.control[which] = sets[which]
    /\ sets.normal[which] \cap sets.control[which] = {}
    /\ sets.control[which] = StartingWithI(sets[which])

\* C14: the baseline sets are codes1 \cap codes2, codes1 \ codes2 and
\* codes2 \ codes1, the three sets compare_codes returns; they are pairwise
\* disjoint, cover codes1 \cup codes2, and each is the disjoint union of its
\* normal part and its control part (the codes starting with 'I').
C14_BaselineIsSetAlgebra ==
    BaselineCalled =>
        LET sets == fn_out.original
            codes1 == fn_in.codes_pdf1
            codes2 == fn_in.codes_pdf2
        IN  /\ sets.in_both = codes1 \cap codes2
            /\ sets.only_in_pdf1 = codes1 \ codes2
            /\ sets.only_in_pdf2 = codes2 \ codes1
            /\ fn_out.plain = <<sets.in_both, sets.only_in_pdf1, sets.only_in_pdf2>>
            /\ sets.in_both \cap sets.only_in_pdf1 = {}
            /\ sets.in_both \cap sets.only_in_pdf2 = {}
            /\ sets.only_in_pdf1 \cap sets.only_in_pdf2 = {}
            /\ sets.in_both \cup sets.only_in_pdf1 \cup sets.only_in_pdf2
                   = codes1 \cup codes2
            /\ \A which \in {"in_both", "only_in_pdf1", "only_in_pdf2"} :
                   SplitByCategory(sets, which)

\* C14 witness: a normal and a control code in both sets, a normal code only in
\* the first, a control code only in the second.
C14_Witness ==
    /\ BaselineCalled
    /\ fn_in.codes_pdf1 = {A1X, I1X, B2Y}
    /\ fn_in.codes_pdf2 = {A1X, I1X, I2Y}
    /\ fn_out.original.in_both = {A1X, I1X}
    /\ fn_out.original.control.in_both = {I1X}
    /\ fn_out.original.normal.only_in_pdf1 = {B2Y}
    /\ fn_out.original.control.only_in_pdf2 = {I2Y}

VariantsCalled == fn_in.called /\ fn_in.fn = "generate_all_ocr_variants"

\* the combinations in the order itertools.product yields them for the code of
\* the call, in the set order of the process
GenerationOrder ==
    product([i \in 1..Len(fn_in.code) |-> get_variants_for_position(fn_in.code[i], hashOrder)])

\* the elements of a list with k edits against the code of the call, the code
\* itself left out, in the order of the list
WithEdits(list, k) ==
    SelectSeq(list, LAMBDA v : v # fn_in.code /\ EditCount(v, fn_in.code) = k)

\* C16: the variant list starts with the code itself; what follows is in
\* non-decreasing order of edit count against the code, and variants of equal
\* edit count stand in the order in which the product generated them.
C16_OriginalFirstThenStableByEditCount ==
    VariantsCalled =>
        /\ fn_out[1] = fn_in.code
        /\ \A i \in 2..(Len(fn_out) - 1) :
              EditCount(fn_out[i], fn_in.code) <= EditCount(fn_out[i + 1], fn_in.code)
        /\ \A k \in 0..Len(fn_in.code) :
              WithEdits(Tail(fn_out), k) = WithEdits(GenerationOrder, k)

\* C16 witness: I0 in a process that iterates {I,1,L} as L, I, 1 and {0,O} as
\* O, 0: the product yields LO L0 IO I0 1O 10, the list is I0, then L0 IO 10 (one
\* edit, in product order), then LO 1O (two edits).
C16_Witness ==
    /\ VariantsCalled
    /\ fn_in.code = <<"I", "0">>
    /\ hashOrder["I"] = <<"L", "I", "1">>
    /\ hashOrder["0"] = <<"O", "0">>
    /\ fn_out = << <<"I", "0">>, <<"L", "0">>, <<"I", "O">>, <<"1", "0">>,
                   <<"L", "O">>, <<"1", "O">> >>

\* the Cartesian product over the positions of a code of the character there
\* and its confusables, as a set
RECURSIVE CartesianVariants(_)
CartesianVariants(c) ==
    IF c = <<>> THEN {<<>>}
    ELSE {<<ch>> \o rest : ch \in {Head(c)} \cup SeqToSet(ocr_substitutions(Head(c))),
                           rest \in CartesianVariants(Tail(c))}

RECURSIVE PowerOfThree(_)
PowerOfThree(n) == IF n = 0 THEN 1 ELSE 3 * PowerOfThree(n - 1)

\* C18: for a code of at most 7 characters the variant list has no duplicates,
\* its elements are exactly the Cartesian product over the positions of the
\* character and its confusables, and it has at most 3^len(c) <= 2187 elements.
C18_VariantsAreTheBoundedProduct ==
    (VariantsCalled /\ Len(fn_in.code) <= 7) =>
        /\ Cardinality(SeqToSet(fn_out)) = Len(fn_out)
        /\ SeqToSet(fn_out) = CartesianVariants(fn_in.code)
        /\ Len(fn_out) <= PowerOfThree(Len(fn_in.code))
        /\ Len(fn_out) <= 2187

\* C18 witness: the code of 7 characters with three variants at each position
\* has exactly 2187 variants.
C18_Witness ==
    /\ VariantsCalled
    /\ fn_in.code = LongestCode
    /\ Len(fn_out) = 2187
    /\ Cardinality(SeqToSet(fn_out)) = 2187

ContextCalled == fn_in.called /\ fn_in.fn = "get_validated_context_codes"

\* C19: the windows are taken around the first occurrence of the code, at
\* position i (from 0): 'before' is the min(k, i) codes right before it, 'after'
\* the up to k codes right after it, both in document order; a later occurrence
\* is never used, and a code the list does not hold gives two empty windows.
C19_WindowsAroundFirstOccurrence ==
    ContextCalled =>
        LET list == fn_in.all_validated_codes
            k == fn_in.context_size
            first == FirstOccurrence(list, fn_in.target_code)
            i == first - 1
            nb == Min2(k, i)
            na == Min2(k, Len(list) - first)
        IN  IF first = 0
            THEN fn_out = [before |-> <<>>, after |-> <<>>]
            ELSE /\ fn_out.before = [j \in 1..nb |-> list[first - nb - 1 + j]]
                 /\ fn_out.after = [j \in 1..na |-> list[first + j]]

\* C19 witness: A1X stands first and last in the list; with k = 3 the windows
\* are those of the first occurrence: nothing before, the next three after.
C19_Witness ==
    /\ ContextCalled
    /\ fn_in.all_validated_codes = <<A1X, B2Y, P0B, A1X>>
    /\ fn_in.target_code = A1X
    /\ fn_in.context_size = 3
    /\ fn_out = [before |-> <<>>, after |-> <<B2Y, P0B, A1X>>]

CountCalled == fn_in.called /\ fn_in.fn = "count_corrections_needed"

\* a string in upper case, without the blanks at its ends
UpperTrimmed(s) == strip(upper(s))

\* C20: the count is the absolute length difference of the two upper-cased,
\* trimmed strings plus the number of positions below the shorter length where
\* they differ; it is 0 exactly when the two are equal after that normalization.
C20_CountIsLengthDeltaPlusMismatches ==
    CountCalled =>
        LET o == UpperTrimmed(fn_in.original)
            c == UpperTrimmed(fn_in.corrected)
            longer == Max2(Len(o), Len(c))
            shorter == Min2(Len(o), Len(c))
        IN  /\ fn_out = (longer - shorter)
                           + Cardinality({i \in 1..shorter : o[i] # c[i]})
            /\ fn_out = 0 <=> o = c

\* C20 witness: ' aB' against 'A': after normalization AB against A, one
\* character more and no mismatch: 1; and 'a ' against 'A' counts 0.
C20_Witness ==
    /\ CountCalled
    /\ fn_in.original = <<" ", "a", "B">>
    /\ fn_in.corrected = <<"A">>
    /\ fn_out = 1
    /\ count_corrections_needed(<<"a", " ">>, <<"A">>) = 0

ScoredTwice == fn_in.called /\ fn_in.fn = "calculate_precise_probability"

\* C27: with the windows and the in-both flag fixed, one more correction in
\* either document never raises the probability, also where the weight table
\* changes: from no correction to one, and from one correction to one in each
\* document
C27_MoreCorrectionsNeverRaiseTheProbability ==
    ScoredTwice => fn_out.second.probability <= fn_out.first.probability

\* from one correction to one in each document with every compared code
\* agreeing: the heavier weights make up for the lower base exactly
C27_Witness ==
    /\ ScoredTwice
    /\ fn_in.is_in_both
    /\ fn_in.corrections_pdf1 + fn_in.corrections_pdf2 = 1
    /\ fn_in.corrections_pdf1 + fn_in.more[1] = 1
    /\ fn_in.corrections_pdf2 + fn_in.more[2] = 1
    /\ fn_out.first.before_matches = 3
    /\ fn_out.first.after_matches = 3
    /\ fn_out.second.probability = fn_out.first.probability

CleanCalled == fn_in.called /\ fn_in.fn = "clean_code"

\* result is the part code[a+1..b] in upper case, where code is a blanks, that
\* part, a run of b+1..c of the characters . , : ; ) that nothing of the kind
\* precedes, and blanks again
IsNormalizedAt(code, result, a, b, c) ==
    /\ \A i \in 1..a : code[i] \in Whitespace
    /\ a < Len(code) => code[a + 1] \notin Whitespace
    /\ \A i \in (c + 1)..Len(code) : code[i] \in Whitespace
    /\ c > a => code[c] \notin Whitespace
    /\ \A i \in (b + 1)..c : code[i] \in TrailingPunctuation
    /\ b > a => code[b] \notin TrailingPunctuation
    /\ Len(result) = b - a
    /\ \A i \in 1..(b - a) : result[i] = UpperChar(code[a + i])

\* C24: without a master list clean_code returns, for every string, the string
\* without the blanks at its ends, then without its trailing run of . , : ; )
\* and in upper case, nothing substituted and nothing removed from within; for
\* the empty string and for a value that is no string it returns the empty
\* string
C24_CleanCodeWithoutVocabularyOnlyNormalizes ==
    CleanCalled =>
        IF fn_in.code = NonString \/ fn_in.code = <<>>
        THEN fn_out = <<>>
        ELSE \E a \in 0..Len(fn_in.code) : \E b \in a..Len(fn_in.code) :
                \E c \in b..Len(fn_in.code) :
                    IsNormalizedAt(fn_in.code, fn_out, a, b, c)

\* the call of the test: 'A01X' with None stays 'A01X'
C24_Witness ==
    /\ CleanCalled
    /\ fn_in.code = A01X
    /\ fn_in.master_codes_set = NoVocabulary
    /\ fn_out = A01X

CompareCalled == fn_in.called /\ fn_in.fn = "compare_codes_with_correction"

\* the candidates of the first document that are empty or no string
Malformed(candidates) ==
    {i \in DOMAIN candidates : candidates[i] \in {NonString, <<>>}}

\* C23: a first document with one candidate that is empty or no string never
\* aborts the comparison, with text lines or without: the call returns, and
\* the codes it reports before the corrections are the master codes among the
\* remaining candidates of the two documents
C23_OneMalformedCandidateNeverAborts ==
    (CompareCalled /\ Cardinality(Malformed(fn_in.candidates1)) = 1) =>
        /\ "raised" \notin DOMAIN fn_out
        /\ fn_out.original.in_both \cup fn_out.original.only_in_pdf1
              = SeqToSet(fn_in.candidates1) \cap CompareMaster
        /\ fn_out.original.only_in_pdf2 \cup fn_out.original.in_both
              = SeqToSet(fn_in.candidates2) \cap CompareMaster

----------------------------------------------------------------------------
(* The application: the window of gui.py and the worker thread that        *)
(* main.start_comparison_process starts.  The GUI thread runs one handler  *)
(* at a time (a click, a file dialog, a callback of master.after); a       *)
(* worker advances between them, one statement group of run_in_thread per  *)
(* step.  Whether OCR succeeds is the environment's choice.                *)

\* most clicks on the start button in a behaviour
MaxClicks == 3

\* the two documents of the application runs and the master list
WorkerPdf1 == <<<<XAY, EB0B>>>>
WorkerPdf2 == <<<<XAY>>>>
WorkerMaster == {EB0B, XAY}

\* how a call of extract_codes ends: with a result, or in one of its three
\* except clauses
ExtractionOutcomes == {"ok", "CalledProcessError", "FileNotFoundError", "Exception"}

\* return validated_codes_from_pdf, raw_codes_with_positions, all_text_lines,
\* correction_info
returned_tuple(r) == <<r.codes, r.raw_codes, r.all_text_lines, r.correction_info>>

\* what extract_codes(..., return_raw_codes=True) returns: the four items at
\* the end of its try block, set(), [], [] from each except clause
extract_codes_returns(outcome, all_text_lines, master_codes_set, is_pdf2, ord) ==
    IF outcome = "ok"
    THEN returned_tuple(extract_codes(all_text_lines, master_codes_set, is_pdf2, ord))
    ELSE <<{}, <<>>, <<>>>>

\* the worker's test of a result: 'result[0] is None' (extract_codes has no
\* path that returns None itself)
extraction_failed(result) == result[1] = NoVocabulary

\* the worker after extract_codes returned result for the first PDF: an error
\* message and the end of the thread if the result says so, the unpacking
\* otherwise
extracted_pdf1(worker, outcome, result) ==
    [worker EXCEPT
        !.outcome1 = outcome,
        !.result_pdf1 = result,
        !.message = IF extraction_failed(result)
                    THEN "FEHLER bei Verarbeitung von PDF 1" ELSE @,
        !.pc = IF extraction_failed(result) THEN "finally" ELSE "unpack1"]

\* the same for the second PDF
extracted_pdf2(worker, outcome, result) ==
    [worker EXCEPT
        !.outcome2 = outcome,
        !.result_pdf2 = result,
        !.message = IF extraction_failed(result)
                    THEN "FEHLER bei Verarbeitung von PDF 2" ELSE @,
        !.pc = IF extraction_failed(result) THEN "finally" ELSE "unpack2"]

\* a click that leaves the button as it is
button_left_enabled(both_paths) == "normal"

\* the button after on_start_button_click read the entries: disabled before
\* the callback is called, untouched when a path is missing
button_after_click(both_paths) == IF both_paths THEN "disabled" ELSE "normal"

\* the statement groups of run_in_thread in which the worker extracts,
\* compares, reports or handles an exception
WorkerBody == {"extract1", "unpack1", "extract2", "unpack2", "compare", "except"}

\* a worker that Thread.start() has just started
started_worker ==
    [pc |-> "extract1", outcome1 |-> "", outcome2 |-> "",
     result_pdf1 |-> <<>>, result_pdf2 |-> <<>>, message |-> "Verarbeitung gestartet"]

InitWorker ==
    /\ GuiConstructed
    /\ hashOrder \in HashOrdersFor({})
    /\ master \in {{}, WorkerMaster}
    /\ pdf1 = WorkerPdf1
    /\ pdf2 = WorkerPdf2
    /\ result_pdf1 = NoCall
    /\ result_pdf2 = NoCall
    /\ comparison_result = NoCall
    /\ previous_run = NoCall
    /\ fn_in = NoCall
    /\ fn_out = NoCall
    /\ restarts = 0
    /\ sc_in = NoCall
    /\ sc_out = NoCall
    /\ rs_in = NoCall
    /\ rs_out = NoCall
    /\ rs_prev = NoCall

worldVars == <<hashOrder, master, scorerVars, resolverVars, restarts, engineVars, functionVars>>

\* select_pdf1 and select_pdf2: the user fills the two entries
SelectPaths ==
    /\ ~paths_selected
    /\ paths_selected' = TRUE
    /\ UNCHANGED <<worldVars, button_start, threads, after_queue, clicks>>

\* on_start_button_click with start_comparison_process as its callback: a
\* disabled button takes no click; without both paths a warning and nothing
\* else; without a master list the callback enables the button again and
\* returns; otherwise it starts a worker
StartButtonClick ==
    /\ button_start = "normal"
    /\ clicks < MaxClicks
    /\ clicks' = clicks + 1
    /\ IF ~paths_selected
       THEN UNCHANGED <<button_start, threads>>
       ELSE IF master = {}
            THEN button_start' = "normal" /\ UNCHANGED threads
            ELSE /\ button_start' = button_after_click(paths_selected)
                 /\ threads' = Append(threads, started_worker)
    /\ UNCHANGED <<worldVars, paths_selected, after_queue>>

\* result_pdf1 = core.extract_codes(pdf1_path, ..., return_raw_codes=True) and
\* the test of the result
Extract1(i) ==
    /\ threads[i].pc = "extract1"
    /\ \E outcome \in ExtractionOutcomes :
          threads' = [threads EXCEPT ![i] =
              extracted_pdf1(@, outcome,
                  extract_codes_returns(outcome, pdf1, master, FALSE, hashOrder))]
    /\ UNCHANGED <<worldVars, button_start, paths_selected, after_queue, clicks>>

\* codes_pdf1, raw_codes_pdf1, all_text_lines_pdf1, correction_info_pdf1 =
\* result_pdf1: ValueError unless the tuple has four items
Unpack1(i) ==
    /\ threads[i].pc = "unpack1"
    /\ threads' = [threads EXCEPT
           ![i].pc = IF Len(threads[i].result_pdf1) = 4 THEN "extract2" ELSE "except"]
    /\ UNCHANGED <<worldVars, button_start, paths_selected, after_queue, clicks>>

\* result_pdf2 = core.extract_codes(pdf2_path, ..., is_pdf2=True) and its test
Extract2(i) ==
    /\ threads[i].pc = "extract2"
    /\ \E outcome \in ExtractionOutcomes :
          threads' = [threads EXCEPT ![i] =
              extracted_pdf2(@, outcome,
                  extract_codes_returns(outcome, pdf2, master, TRUE, hashOrder))]
    /\ UNCHANGED <<worldVars, button_start, paths_selected, after_queue, clicks>>

Unpack2(i) ==
    /\ threads[i].pc = "unpack2"
    /\ threads' = [threads EXCEPT
           ![i].pc = IF Len(threads[i].result_pdf2) = 4 THEN "compare" ELSE "except"]
    /\ UNCHANGED <<worldVars, button_start, paths_selected, after_queue, clicks>>

\* the message the worker ends with after the comparison
result_message(comparison) ==
    IF comparison.corrected.only_in_pdf1 # {} \/ comparison.corrected.only_in_pdf2 # {}
    THEN "Abweichungen gefunden"
    ELSE IF comparison.corrected.in_both # {}
         THEN "Keine Abweichungen gefunden"
         ELSE "Keine Codes gefunden"

\* the worker after the comparison: in the except clause if it raised, with
\* the result message otherwise
compared(worker, comparison) ==
    IF "raised" \in DOMAIN comparison
    THEN [worker EXCEPT !.pc = "except"]
    ELSE [worker EXCEPT !.message = result_message(comparison), !.pc = "finally"]

\* core.compare_codes_with_correction, the report and the result message
CompareAndReport(i) ==
    /\ threads[i].pc = "compare"
    /\ LET r1 == threads[i].result_pdf1
           r2 == threads[i].result_pdf2
       IN  \E order_only_in_pdf2 \in Perms(r2[1] \ r1[1]),
              order_in_both \in Perms(r1[1] \cap r2[1]) :
              threads' = [threads EXCEPT ![i] =
                  compared(@, compare_codes_with_correction(
                                  r1[1], r2[1], r1[2], r2[2], master, r1[3],
                                  r1[4], r2[4], hashOrder,
                                  order_only_in_pdf2, order_in_both))]
    /\ UNCHANGED <<worldVars, button_start, paths_selected, after_queue, clicks>>

\* except Exception as e: the error is shown as an unexpected one
ExceptClause(i) ==
    /\ threads[i].pc = "except"
    /\ threads' = [threads EXCEPT
           ![i].message = "Ein unerwarteter Fehler ist aufgetreten",
           ![i].pc = "finally"]
    /\ UNCHANGED <<worldVars, button_start, paths_selected, after_queue, clicks>>

\* finally: app_gui.master.after(100, app_gui.enable_start_button)
FinallyClause(i) ==
    /\ threads[i].pc = "finally"
    /\ threads' = [threads EXCEPT ![i].pc = "done"]
    /\ after_queue' = after_queue + 1
    /\ UNCHANGED <<worldVars, button_start, paths_selected, clicks>>

\* the GUI thread runs a callback of master.after: enable_start_button
AfterCallback ==
    /\ after_queue > 0
    /\ after_queue' = after_queue - 1
    /\ button_start' = "normal"
    /\ UNCHANGED <<worldVars, paths_selected, threads, clicks>>

NextWorker ==
    \/ SelectPaths
    \/ StartButtonClick
    \/ \E i \in DOMAIN threads : Extract1(i)
    \/ \E i \in DOMAIN threads : Unpack1(i)
    \/ \E i \in DOMAIN threads : Extract2(i)
    \/ \E i \in DOMAIN threads : Unpack2(i)
    \/ \E i \in DOMAIN threads : CompareAndReport(i)
    \/ \E i \in DOMAIN threads : ExceptClause(i)
    \/ \E i \in DOMAIN threads : FinallyClause(i)
    \/ AfterCallback

SpecWorker == InitWorker /\ [][NextWorker]_vars

\* the results of extract_codes a worker holds
ExtractionResults(worker) ==
    {r \in {worker.result_pdf1, worker.result_pdf2} : r # <<>>}

\* a finished worker one of whose extractions ended in an except clause
FailedExtraction(worker) ==
    /\ worker.pc = "done"
    /\ {worker.outcome1, worker.outcome2} \cap (ExtractionOutcomes \ {"ok"}) # {}

\* C29: every result extract_codes(return_raw_codes=True) returns to the worker
\* is a tuple of four items, on its error paths too, so that no worker ends in
\* the handler of unexpected errors because an extraction failed: the failed
\* extraction is compared as an empty result
C29_ExtractCodesAlwaysReturnsFourItems ==
    \A i \in DOMAIN threads :
        /\ \A r \in ExtractionResults(threads[i]) : Len(r) = 4
        /\ FailedExtraction(threads[i]) =>
              threads[i].message # "Ein unerwarteter Fehler ist aufgetreten"

\* the workers inside the body of run_in_thread
RunningWorkers == {i \in DOMAIN threads : threads[i].pc \in WorkerBody}

\* C30: at most one worker is in the body of run_in_thread at a time; while
\* one is, the start button is disabled and no callback that would enable it
\* is waiting, so the button is enabled again only after the worker reached
\* its finally block
C30_AtMostOneWorkerRuns ==
    /\ Cardinality(RunningWorkers) <= 1
    /\ RunningWorkers # {} => button_start = "disabled" /\ after_queue = 0

\* C30 witness: a second worker compares while the first has finished, the
\* button disabled again
C30_Witness ==
    /\ Len(threads) = 2
    /\ threads[1].pc = "done"
    /\ threads[2].pc = "compare"
    /\ button_start = "disabled"
    /\ clicks = 2

====
